---- MODULE Spec2Model ----
(***************************************************************************)
(* Business-intake form: the client form, the POST /api/join route handler, *)
(* the validation schema the two share, and the spreadsheet the handler    *)
(* appends to.  Strings are TLA+ strings (Len, SubSeq and \o act on them), JSON *)
(* values are tagged records so that values of different JSON types can    *)
(* be told apart.                                                          *)
(***************************************************************************)
EXTENDS Integers, Sequences, FiniteSets, TLC

VARIABLES
    env,        \* process.env: GOOGLE_SHEET_ID and GOOGLE_SERVICE_ACCOUNT_JSON
    sheet,      \* the rows of the remote spreadsheet tab, top to bottom
    pc,         \* per request: where the handler stands
    body,       \* per request: the raw HTTP body it was sent
    payload,    \* per request: parsedPayload handed to appendSubmissionRow
    rows,       \* per request: rowsToAppend of the pending append call
    calls,      \* per request: the spreadsheet calls issued so far, in order
    logged,     \* per request: what console.error received
    response,   \* per request: the response returned
    formValues, \* the form: the field values the user entered
    typed,      \* the form: the text last entered in the phone box
    parsed,     \* the form: what the resolver made of the values it was given
    mutation,   \* the form: status of submitMutation
    outbox,     \* the form: the payload handed to submitMutation.mutate
    toast,      \* the form: the toast shown last
    edits,      \* the form: changes made by the user so far
    sent        \* the form: requests sent so far

serverVars == <<env, sheet, pc, body, payload, rows, calls, logged, response>>

formVars == <<formValues, typed, parsed, mutation, outbox, toast, edits, sent>>

vars == <<env, sheet, pc, body, payload, rows, calls, logged, response,
          formValues, typed, parsed, mutation, outbox, toast, edits, sent>>

-----------------------------------------------------------------------------
(* JSON values *)

Undefined == [t |-> "undefined"]
Null == [t |-> "null"]
Num(n) == [t |-> "number", v |-> n]
Str(s) == [t |-> "string", v |-> s]
Bool(b) == [t |-> "boolean", v |-> b]
Arr(a) == [t |-> "array", v |-> a]
Obj(o) == [t |-> "object", v |-> o]

\* obj[key] in JavaScript: undefined when the key is absent.
Get(o, k) == IF o.t = "object" /\ k \in DOMAIN o.v THEN o.v[k] ELSE Undefined

\* { ...o, [k]: x }
With(o, k, x) == Obj([f \in DOMAIN o.v \cup {k} |-> IF f = k THEN x ELSE o.v[f]])

\* o with key k deleted
Without(o, k) == Obj([f \in DOMAIN o.v \ {k} |-> o.v[f]])

-----------------------------------------------------------------------------
(* Strings *)

Ch(s, i) == SubSeq(s, i, i)

Digits == {"0", "1", "2", "3", "4", "5", "6", "7", "8", "9"}

Letters ==
    {"a", "b", "c", "d", "e", "f", "g", "h", "i", "j", "k", "l", "m",
     "n", "o", "p", "q", "r", "s", "t", "u", "v", "w", "x", "y", "z",
     "A", "B", "C", "D", "E", "F", "G", "H", "I", "J", "K", "L", "M",
     "N", "O", "P", "Q", "R", "S", "T", "U", "V", "W", "X", "Y", "Z"}

WhiteSpace == {" ", "\t"}

AllIn(s, set) == \A i \in 1..Len(s) : Ch(s, i) \in set

\* the one element of a singleton set: Only({e(x) : x \in {v}}) is e
\* applied to the value of v, computed once
Only(S) == CHOOSE x \in S : TRUE

\* String.prototype.trim: from the first to the last character that is not
\* white space
Trim(s) ==
    LET kept == {i \in 1..Len(s) : Ch(s, i) \notin WhiteSpace}
    IN  IF kept = {} THEN ""
        ELSE SubSeq(s, CHOOSE i \in kept : \A j \in kept : i <= j,
                       CHOOSE i \in kept : \A j \in kept : j <= i)

\* Array.prototype.join over strings
RECURSIVE Join(_, _)
Join(list, sep) ==
    IF Len(list) = 0 THEN ""
    ELSE IF Len(list) = 1 THEN list[1]
    ELSE list[1] \o sep \o Join(Tail(list), sep)

\* index of the first occurrence of character c in s, 0 when there is none
IndexOf(s, c) ==
    IF \E i \in 1..Len(s) : Ch(s, i) = c
    THEN CHOOSE i \in 1..Len(s) : Ch(s, i) = c /\ \A j \in 1..(i - 1) : Ch(s, j) # c
    ELSE 0

\* String.prototype.split on a one-character separator: the pieces between
\* consecutive separators
Split(s, c) ==
    LET seps == {i \in 1..Len(s) : Ch(s, i) = c}
        Sep(k) == IF k = 0 THEN 0
                  ELSE IF k > Cardinality(seps) THEN Len(s) + 1
                  ELSE CHOOSE i \in seps : Cardinality({j \in seps : j < i}) = k - 1
    IN  [k \in 1..(Cardinality(seps) + 1) |-> SubSeq(s, Sep(k - 1) + 1, Sep(k) - 1)]

-----------------------------------------------------------------------------
(* The validation library (zod v3) as far as the schemas use it.  A parse  *)
(* result carries a status: "valid", "dirty" (a check failed, the value is *)
(* still produced) or "aborted" (wrong type: no value).                    *)

Key(k) == [key |-> k]
Idx(i) == [idx |-> i]
Issue(path, message) == [path |-> path, message |-> message]

Valid(v) == [status |-> "valid", value |-> v, issues |-> <<>>]
Dirty(v, issues) == [status |-> "dirty", value |-> v, issues |-> issues]
Aborted(issues) == [status |-> "aborted", value |-> Undefined, issues |-> issues]

\* the invalid_type issue: "Required" for a missing value
InvalidType(expected, v, path) ==
    Aborted(<<Issue(path,
        IF v.t = "undefined" THEN "Required"
        ELSE "Expected " \o expected \o ", received " \o v.t)>>)

\* /^\d{10}$/
MatchesPhone(s) == Len(s) = 10 /\ AllIn(s, Digits)

\* /^\d{5}(?:-\d{4})?$/
MatchesZip(s) ==
    \/ Len(s) = 5 /\ AllIn(s, Digits)
    \/ /\ Len(s) = 10
       /\ AllIn(SubSeq(s, 1, 5), Digits)
       /\ Ch(s, 6) = "-"
       /\ AllIn(SubSeq(s, 7, 10), Digits)

SpecialSchemes == {"http", "https", "ftp", "ws", "wss"}
AlphaNum == Letters \cup Digits
SchemeChars == AlphaNum \cup {"+", "-", "."}
HostChars == AlphaNum \cup {".", "-", "/", ":", "?", "#", "=", "&", "_", "%"}
LabelChars == AlphaNum \cup {"-"}

\* s without its leading characters that are in set
StripLeading(s, set) ==
    LET kept == {i \in 1..Len(s) : Ch(s, i) \notin set}
    IN  IF kept = {} THEN ""
        ELSE SubSeq(s, CHOOSE i \in kept : \A j \in kept : i <= j, Len(s))

\* z.string().url(): new URL(s) does not throw.  The URL parser strips
\* surrounding white space, needs a scheme (a letter, then letters, digits,
\* "+", "-", "."), and for the special schemes a non-empty host.
IsUrl(s0) ==
    LET s == Trim(s0)
        i == IndexOf(s, ":")
        scheme == SubSeq(s, 1, i - 1)
        rest == SubSeq(s, i + 1, Len(s))
        host == StripLeading(rest, {"/", "\\"})
    IN  /\ i > 1
        /\ Ch(scheme, 1) \in Letters
        /\ AllIn(scheme, SchemeChars)
        /\ scheme \in SpecialSchemes =>
              /\ Len(host) > 0
              /\ Ch(host, 1) \notin {":", "?", "#", " "}
              /\ AllIn(host, HostChars)

EmailLocalChars == AlphaNum \cup {"_", "'", "+", "-", "."}
EmailLocalEnd == AlphaNum \cup {"_", "+", "-"}

RECURSIVE IsDomain(_)
\* ([A-Z0-9][A-Z0-9\-]*\.)+[A-Z]{2,} , case-insensitive
IsDomain(d) ==
    LET i == IndexOf(d, ".")
        label == SubSeq(d, 1, i - 1)
        rest == SubSeq(d, i + 1, Len(d))
    IN  /\ i > 1
        /\ Ch(label, 1) \in AlphaNum
        /\ AllIn(label, LabelChars)
        /\ \/ Len(rest) >= 2 /\ AllIn(rest, Letters)
           \/ IsDomain(rest)

\* z.string().email():
\* /^(?!\.)(?!.*\.\.)([A-Z0-9_'+\-\.]*)[A-Z0-9_+-]@([A-Z0-9][A-Z0-9\-]*\.)+[A-Z]{2,}$/i
IsEmail(s) ==
    LET i == IndexOf(s, "@")
        local == SubSeq(s, 1, i - 1)
        domain == SubSeq(s, i + 1, Len(s))
    IN  /\ i > 1
        /\ Ch(s, 1) # "."
        /\ \A j \in 1..(Len(s) - 1) : ~(Ch(s, j) = "." /\ Ch(s, j + 1) = ".")
        /\ AllIn(local, EmailLocalChars)
        /\ Ch(local, Len(local)) \in EmailLocalEnd
        /\ IsDomain(domain)

\* one check of a string schema; "trim" rewrites the data and never fails
Check(kind, arg, msg) == [kind |-> kind, arg |-> arg, msg |-> msg]

CheckFails(s, c) ==
    CASE c.kind = "min" -> Len(s) < c.arg
      [] c.kind = "max" -> Len(s) > c.arg
      [] c.kind = "phone" -> ~MatchesPhone(s)
      [] c.kind = "zip" -> ~MatchesZip(s)
      [] c.kind = "url" -> ~IsUrl(s)
      [] c.kind = "email" -> ~IsEmail(s)
      [] OTHER -> FALSE

RECURSIVE StringChecks(_, _, _)
StringChecks(s, checks, path) ==
    IF Len(checks) = 0 THEN [value |-> s, issues |-> <<>>]
    ELSE LET c == Head(checks)
             data == IF c.kind = "trim" THEN Trim(s) ELSE s
             rest == StringChecks(data, Tail(checks), path)
         IN  [value |-> rest.value,
              issues |-> (IF CheckFails(data, c) THEN <<Issue(path, c.msg)>> ELSE <<>>)
                         \o rest.issues]

\* z.string() with its checks, applied in the order written
ZString(v, path, checks) ==
    IF v.t # "string" THEN InvalidType("string", v, path)
    ELSE LET r == StringChecks(v.v, checks, path)
         IN  IF Len(r.issues) = 0 THEN Valid(Str(r.value)) ELSE Dirty(Str(r.value), r.issues)

\* z.boolean()
ZBoolean(v, path) ==
    IF v.t # "boolean" THEN InvalidType("boolean", v, path) ELSE Valid(v)

\* z.enum(options)
ZEnum(v, path, options) ==
    IF v.t # "string" THEN InvalidType("enum", v, path)
    ELSE IF v.v \notin options THEN Aborted(<<Issue(path, "Invalid enum value")>>)
    ELSE Valid(v)

\* z.literal(lit): the data must be === lit
ZLiteral(v, path, lit) ==
    IF v.t = lit.t /\ v.v = lit.v THEN Valid(v)
    ELSE Aborted(<<Issue(path, "Invalid literal value")>>)

\* z.union([a, b]) given the results of both options: the first valid one,
\* else the first dirty one, else invalid_union
ZUnion(ra, rb, path) ==
    IF ra.status = "valid" THEN ra
    ELSE IF rb.status = "valid" THEN rb
    ELSE IF ra.status = "dirty" THEN ra
    ELSE IF rb.status = "dirty" THEN rb
    ELSE Aborted(<<Issue(path, "Invalid input")>>)

\* schema.optional(): undefined passes as it is
ZOptional(v, r) == IF v.t = "undefined" THEN Valid(Undefined) ELSE r

RECURSIVE ConcatIssues(_)
ConcatIssues(results) ==
    IF Len(results) = 0 THEN <<>>
    ELSE Head(results).issues \o ConcatIssues(Tail(results))

\* ParseStatus.mergeArray / mergeObjectSync: aborted wins, then dirty
MergeStatus(own, results) ==
    IF \E i \in 1..Len(results) : results[i].status = "aborted" THEN "aborted"
    ELSE IF own = "dirty" \/ \E i \in 1..Len(results) : results[i].status = "dirty"
    THEN "dirty"
    ELSE "valid"

\* the length checks of an array schema, in the order written
RECURSIVE ArrayChecks(_, _, _)
ArrayChecks(n, checks, path) ==
    IF Len(checks) = 0 THEN <<>>
    ELSE LET c == Head(checks)
             fails == \/ c.kind = "min" /\ n < c.arg
                      \/ c.kind = "max" /\ n > c.arg
         IN  (IF fails THEN <<Issue(path, c.msg)>> ELSE <<>>)
             \o ArrayChecks(n, Tail(checks), path)

\* the elements of an array value; none for any other value
Items(v) == IF v.t = "array" THEN v.v ELSE <<>>

\* z.array(item) with its length checks, given the result of every item:
\* the checks first, then the items
ZArray(v, path, items, checks) ==
    IF v.t # "array" THEN InvalidType("array", v, path)
    ELSE Only({
           LET n == Len(v.v)
               own == ArrayChecks(n, checks, path)
               status == MergeStatus(IF Len(own) = 0 THEN "valid" ELSE "dirty", rs)
               issues == own \o ConcatIssues(rs)
           IN  IF status = "aborted" THEN Aborted(issues)
               ELSE [status |-> status,
                     value |-> Arr([i \in 1..n |-> rs[i].value]),
                     issues |-> issues]
           : rs \in {items}})

\* z.object(shape) given the result of every key of the shape, in shape
\* order; unknown keys are stripped, undefined values leave no key
ZObject(v, path, keys, results) ==
    IF v.t # "object" THEN InvalidType("object", v, path)
    ELSE Only({
           LET status == MergeStatus("valid", rs)
               issues == ConcatIssues(rs)
               kept == {i \in 1..Len(keys) : rs[i].value.t # "undefined"}
               value == Obj([k \in {keys[i] : i \in kept} |->
                                rs[CHOOSE i \in kept : keys[i] = k].value])
           IN  IF status = "aborted" THEN Aborted(issues)
               ELSE [status |-> status, value |-> value, issues |-> issues]
           : rs \in {results}})

\* ZodError.flatten(): messages keyed by the first path element only
Flatten(issues) ==
    LET top == {issues[i].path[1].key : i \in {j \in 1..Len(issues) : Len(issues[j].path) > 0}}
        Msgs(sel) == [i \in 1..Len(sel) |-> sel[i].message]
        At(k) == LET Here(x) == Len(x.path) > 0 /\ x.path[1].key = k
                 IN  SelectSeq(issues, Here)
        Form(x) == Len(x.path) = 0
    IN  [formErrors |-> Msgs(SelectSeq(issues, Form)),
         fieldErrors |-> [k \in top |-> Msgs(At(k))]]

-----------------------------------------------------------------------------
(* The schemas *)

TagItem(v, path) ==
    ZString(v, path, <<Check("trim", 0, ""),
                       Check("min", 1, "String must contain at least 1 character(s)")>>)

\* tags: z.array(z.string().trim().min(1)).optional().default([])
ExtrasTags(v, path) ==
    LET data == IF v.t = "undefined" THEN Arr(<<>>) ELSE v
        items == [i \in 1..Len(Items(data)) |->
                     TagItem(Items(data)[i], path \o <<Idx(i - 1)>>)]
    IN  ZOptional(data, ZArray(data, path, items, <<>>))

\* variant: any number is taken
ExtrasNotUSANumber(v, path) ==
    IF v.t = "number" THEN Valid(v) ELSE Aborted(<<Issue(path, "Invalid input")>>)

\* Not_USA: z.union([z.literal(0), z.literal(1)])
ExtrasNotUSA(v, path) ==
    ZUnion(ZLiteral(v, path, Num(0)), ZLiteral(v, path, Num(1)), path)

joinPayloadExtrasSchema(b) ==
    ZObject(b, <<>>, <<"tags", "Not_USA">>,
            <<ExtrasTags(Get(b, "tags"), <<Key("tags")>>),
              ExtrasNotUSA(Get(b, "Not_USA"), <<Key("Not_USA")>>)>>)

BUSINESS_CATEGORIES ==
    {"Arts, Media & Creative",
     "Auto, Transport & Logistics",
     "Beauty & Personal Care",
     "Business, Marketing & Consulting",
     "Contractors, Home, & Building Services",
     "Education, Training & Nonprofits",
     "Energy & Environmental",
     "Food & Drink",
     "Government, Public & Infrastructure",
     "Health & Wellness",
     "Legal, Financial & Professional",
     "Manufacturing, Industrial & Wholesale",
     "Other / Specialty Services",
     "Shops & Retail",
     "Tech & Digital Services",
     "Travel, Hospitality & Events"}

DescriptionMax == 500
ProductsMax == 300
KeywordsMax == 5
LocationsMax == 5

\* z.union([z.literal(""), z.string().url("Invalid URL")])
optionalUrlSchema(v, path) ==
    ZUnion(ZLiteral(v, path, Str("")),
           ZString(v, path, <<Check("url", 0, "Invalid URL")>>), path)

\* variant: any string is taken, the empty one too
RequiredAnyString(v, path, msg) == ZString(v, path, <<>>)

Required(v, path, msg) == ZString(v, path, <<Check("min", 1, msg)>>)

ZipCode(v, path) == ZString(v, path, <<Check("zip", 0, "Enter a valid ZIP code")>>)

LocationKeys == <<"street", "street2", "city", "state", "zip_code", "phone", "email">>

locationSchema(v, path) ==
    LET F(k) == Get(v, k)
        P(k) == path \o <<Key(k)>>
    IN  ZObject(v, path, LocationKeys,
          <<Required(F("street"), P("street"), "Address line 1 is required"),
            ZOptional(F("street2"), ZString(F("street2"), P("street2"), <<>>)),
            Required(F("city"), P("city"), "City is required"),
            Required(F("state"), P("state"), "State is required"),
            ZipCode(F("zip_code"), P("zip_code")),
            ZOptional(F("phone"),
                ZUnion(ZLiteral(F("phone"), P("phone"), Str("")),
                       ZString(F("phone"), P("phone"),
                               <<Check("phone", 0, "Phone must be 10 digits")>>),
                       P("phone"))),
            ZOptional(F("email"),
                ZUnion(ZLiteral(F("email"), P("email"), Str("")),
                       ZString(F("email"), P("email"),
                               <<Check("email", 0, "Invalid email")>>),
                       P("email")))>>)

\* variant: the entry is checked as written, without trim()
KeywordItemUntrimmed(v, path) ==
    ZString(v, path, <<Check("min", 1, "Keyword is required")>>)

KeywordItem(v, path) ==
    ZString(v, path, <<Check("trim", 0, ""), Check("min", 1, "Keyword is required")>>)

\* variant: consent_marketing without its refinement
ConsentMarketingUnrefined(v, path) == ZBoolean(v, path)

\* consent_marketing: z.boolean().refine((value) => value, ...)
ConsentMarketing(v, path) ==
    LET inner == ZBoolean(v, path)
    IN  IF inner.status = "aborted" THEN inner
        ELSE IF inner.value.v THEN inner
        ELSE Dirty(inner.value, <<Issue(path, "Marketing consent is required")>>)

FormKeys ==
    <<"business_name", "Category", "description", "products", "website", "phone",
      "email", "contact_first", "contact_last", "street", "street2", "city", "state",
      "zip_code", "tags", "African_American", "Women-American", "type_of_business",
      "is_usa_based", "consent_marketing", "facebook", "instagram", "linkedin",
      "keywords", "has_multiple_locations", "additional_locations">>

\* the z.object({...}) of businessFormSchema, before superRefine
BusinessFormObject(v) ==
    LET F(k) == Get(v, k)
        P(k) == <<Key(k)>>
    IN  ZObject(v, <<>>, FormKeys,
          <<Required(F("business_name"), P("business_name"), "Business name is required"),
            ZEnum(F("Category"), P("Category"), BUSINESS_CATEGORIES),
            ZString(F("description"), P("description"),
                <<Check("min", 1, "Business description is required"),
                  Check("max", DescriptionMax, "Description must be 500 characters or fewer")>>),
            ZString(F("products"), P("products"),
                <<Check("min", 1, "Products/services are required"),
                  Check("max", ProductsMax, "Products/services must be 300 characters or fewer")>>),
            ZString(F("website"), P("website"), <<Check("url", 0, "Enter a valid website URL")>>),
            ZString(F("phone"), P("phone"), <<Check("phone", 0, "Phone must be exactly 10 digits")>>),
            ZString(F("email"), P("email"), <<Check("email", 0, "Enter a valid email address")>>),
            Required(F("contact_first"), P("contact_first"), "First name is required"),
            Required(F("contact_last"), P("contact_last"), "Last name is required"),
            Required(F("street"), P("street"), "Address line 1 is required"),
            ZOptional(F("street2"), ZString(F("street2"), P("street2"), <<>>)),
            Required(F("city"), P("city"), "City is required"),
            Required(F("state"), P("state"), "State is required"),
            ZipCode(F("zip_code"), P("zip_code")),
            ZOptional(F("tags"), ZString(F("tags"), P("tags"), <<>>)),
            ZBoolean(F("African_American"), P("African_American")),
            ZBoolean(F("Women-American"), P("Women-American")),
            ZEnum(F("type_of_business"), P("type_of_business"), {"physical", "online", "both"}),
            ZBoolean(F("is_usa_based"), P("is_usa_based")),
            ConsentMarketing(F("consent_marketing"), P("consent_marketing")),
            optionalUrlSchema(F("facebook"), P("facebook")),
            optionalUrlSchema(F("instagram"), P("instagram")),
            optionalUrlSchema(F("linkedin"), P("linkedin")),
            ZArray(F("keywords"), P("keywords"),
                [i \in 1..Len(Items(F("keywords"))) |->
                    KeywordItem(Items(F("keywords"))[i], P("keywords") \o <<Idx(i - 1)>>)],
                <<Check("min", 1, "Add at least one keyword"),
                  Check("max", KeywordsMax, "Maximum 5 keywords")>>),
            ZBoolean(F("has_multiple_locations"), P("has_multiple_locations")),
            ZArray(F("additional_locations"), P("additional_locations"),
                [i \in 1..Len(Items(F("additional_locations"))) |->
                    locationSchema(Items(F("additional_locations"))[i],
                                   P("additional_locations") \o <<Idx(i - 1)>>)],
                <<Check("max", LocationsMax, "Maximum 5 locations")>>)>>)

\* variant: the callback without its rule on the location list
SuperRefineIssuesOwnershipOnly(values) ==
    IF ~Get(values, "African_American").v /\ ~Get(values, "Women-American").v
    THEN <<Issue(<<Key("African_American")>>, "Select at least one ownership option")>>
    ELSE <<>>

\* the issues the superRefine callback adds for an object the inner schema
\* produced
SuperRefineIssues(values) ==
    (IF ~Get(values, "African_American").v /\ ~Get(values, "Women-American").v
     THEN <<Issue(<<Key("African_American")>>, "Select at least one ownership option")>>
     ELSE <<>>)
    \o
    (IF Get(values, "has_multiple_locations").v
        /\ Len(Get(values, "additional_locations").v) > 0
     THEN <<>>
     ELSE IF Get(values, "has_multiple_locations").v
             /\ Len(Get(values, "additional_locations").v) = 0
     THEN <<Issue(<<Key("additional_locations")>>, "Add at least one additional location")>>
     ELSE <<>>)

\* businessFormSchema: the refinement runs unless the object parse aborted
businessFormSchema(v) ==
    Only({IF inner.status = "aborted" THEN inner
          ELSE Only({IF Len(extra) = 0 THEN inner
                     ELSE Dirty(inner.value, inner.issues \o extra)
                     : extra \in {SuperRefineIssues(inner.value)}})
          : inner \in {BusinessFormObject(v)}})

\* variant: a result with failed checks counts as a success
SafeParseLenient(r) ==
    Only({IF x.status # "aborted" THEN [success |-> TRUE, data |-> x.value, issues |-> <<>>]
          ELSE [success |-> FALSE, data |-> Undefined, issues |-> x.issues]
          : x \in {r}})

\* safeParse: success only for a valid result
SafeParse(r) ==
    Only({IF x.status = "valid" THEN [success |-> TRUE, data |-> x.value, issues |-> <<>>]
          ELSE [success |-> FALSE, data |-> Undefined, issues |-> x.issues]
          : x \in {r}})

-----------------------------------------------------------------------------
(* The row written to the spreadsheet *)

HEADER_COLUMNS ==
    <<"business_name", "Category", "description", "products", "website", "phone",
      "email", "contact_first", "contact_last", "street", "street2", "city", "state",
      "zip_code", "tags", "African_American", "Women-American", "type_of_business",
      "is_usa_based", "Not_USA", "consent_marketing", "facebook", "instagram",
      "linkedin", "keywords", "has_multiple_locations", "additional_locations">>

toBooleanCell(value) == IF value THEN "Yes" ELSE "No"

DigitOf == <<"0", "1", "2", "3", "4", "5", "6", "7", "8", "9">>

\* String(n) for a natural number
RECURSIVE NumberToString(_)
NumberToString(n) ==
    IF n < 10 THEN DigitOf[n + 1]
    ELSE NumberToString(n \div 10) \o DigitOf[(n % 10) + 1]

\* the text of a JSON string literal: quotes and backslashes escaped
Escape(s) ==
    Join([i \in 1..Len(s) |->
            IF Ch(s, i) \in {"\"", "\\"} THEN "\\" \o Ch(s, i) ELSE Ch(s, i)], "")

Quote(s) == "\"" \o Escape(s) \o "\""

\* the strings of an array of JSON strings
Strings(a) == [i \in 1..Len(a.v) |-> a.v[i].v]

\* JSON.stringify of one location: its keys in the order the schema made them
StringifyLocation(loc) ==
    LET Present(k) == k \in DOMAIN loc.v
        keys == SelectSeq(LocationKeys, Present)
    IN  "{" \o Join([i \in 1..Len(keys) |->
                        Quote(keys[i]) \o ":" \o Quote(loc.v[keys[i]].v)], ",") \o "}"

\* JSON.stringify(payload.additional_locations)
StringifyLocations(a) ==
    "[" \o Join([i \in 1..Len(a.v) |-> StringifyLocation(a.v[i])], ",") \o "]"

\* variant: the tags and keywords cells change places
rowFromPayloadKeywordsFirst(p) ==
    <<Get(p, "business_name").v,
      Get(p, "Category").v,
      Get(p, "description").v,
      Get(p, "products").v,
      Get(p, "website").v,
      Get(p, "phone").v,
      Get(p, "email").v,
      Get(p, "contact_first").v,
      Get(p, "contact_last").v,
      Get(p, "street").v,
      IF Get(p, "street2").t = "undefined" THEN "" ELSE Get(p, "street2").v,
      Get(p, "city").v,
      Get(p, "state").v,
      Get(p, "zip_code").v,
      Join(Strings(Get(p, "keywords")), ", "),
      toBooleanCell(Get(p, "African_American").v),
      toBooleanCell(Get(p, "Women-American").v),
      Get(p, "type_of_business").v,
      toBooleanCell(Get(p, "is_usa_based").v),
      NumberToString(Get(p, "Not_USA").v),
      toBooleanCell(Get(p, "consent_marketing").v),
      Get(p, "facebook").v,
      Get(p, "instagram").v,
      Get(p, "linkedin").v,
      Join(Strings(Get(p, "tags")), ", "),
      toBooleanCell(Get(p, "has_multiple_locations").v),
      StringifyLocations(Get(p, "additional_locations"))>>

rowFromPayload(p) ==
    <<Get(p, "business_name").v,
      Get(p, "Category").v,
      Get(p, "description").v,
      Get(p, "products").v,
      Get(p, "website").v,
      Get(p, "phone").v,
      Get(p, "email").v,
      Get(p, "contact_first").v,
      Get(p, "contact_last").v,
      Get(p, "street").v,
      IF Get(p, "street2").t = "undefined" THEN "" ELSE Get(p, "street2").v,
      Get(p, "city").v,
      Get(p, "state").v,
      Get(p, "zip_code").v,
      Join(Strings(Get(p, "tags")), ", "),
      toBooleanCell(Get(p, "African_American").v),
      toBooleanCell(Get(p, "Women-American").v),
      Get(p, "type_of_business").v,
      toBooleanCell(Get(p, "is_usa_based").v),
      NumberToString(Get(p, "Not_USA").v),
      toBooleanCell(Get(p, "consent_marketing").v),
      Get(p, "facebook").v,
      Get(p, "instagram").v,
      Get(p, "linkedin").v,
      Join(Strings(Get(p, "keywords")), ", "),
      toBooleanCell(Get(p, "has_multiple_locations").v),
      StringifyLocations(Get(p, "additional_locations"))>>

-----------------------------------------------------------------------------
(* The environment and the spreadsheet service *)

\* A value of GOOGLE_SERVICE_ACCOUNT_JSON: unset, or a text described by
\* what the code asks of it: whether it is empty, whether (trimmed) it starts
\* with "{", and whether the text (base64-decoded when it does not start with
\* "{") is valid JSON.
Unset == [set |-> FALSE]
Text(empty, brace, json) == [set |-> TRUE, empty |-> empty, brace |-> brace, json |-> json]

CredentialValues ==
    {Unset,
     Text(TRUE, FALSE, FALSE),      \* ""
     Text(FALSE, TRUE, TRUE),       \* { ... } JSON
     Text(FALSE, TRUE, FALSE),      \* {oops
     Text(FALSE, FALSE, TRUE),      \* base64 of JSON
     Text(FALSE, FALSE, FALSE)}     \* neither

SheetIdValues == {"", "sheet-1"}

Threw(msg) == [ok |-> FALSE, error |-> msg]
Returned == [ok |-> TRUE, error |-> ""]

getGoogleServiceAccountCredentials(credentialsRaw) ==
    IF ~credentialsRaw.set \/ credentialsRaw.empty
    THEN Threw("Missing GOOGLE_SERVICE_ACCOUNT_JSON environment variable.")
    ELSE IF ~credentialsRaw.json
    THEN Threw("GOOGLE_SERVICE_ACCOUNT_JSON is not valid JSON.")
    ELSE Returned

\* what appendSubmissionRow does before its first await
AppendSetup(e) ==
    IF e.GOOGLE_SHEET_ID = ""
    THEN Threw("Missing GOOGLE_SHEET_ID environment variable.")
    ELSE getGoogleServiceAccountCredentials(e.GOOGLE_SERVICE_ACCOUNT_JSON)

\* the errors a spreadsheet call can be rejected with
ApiErrors == {"The caller does not have permission", "socket hang up"}

\* firstRow.data.values for the range A1:Z1: absent or empty when the first
\* row holds nothing, else the one row with its cells
FirstRowValues(sh) ==
    IF Len(sh) = 0
    THEN {Undefined, Arr(<<>>), Arr(<<Arr(<<>>)>>)}
    ELSE LET width == IF Len(sh[1]) < 26 THEN Len(sh[1]) ELSE 26
         IN  {Arr(<<Arr([i \in 1..width |-> Str(sh[1][i])])>>)}

\* variant: only `values` itself is tested
HasHeaderTruthy(values) == values.t # "undefined"

\* values && values.length > 0 && values[0]?.length > 0
HasHeader(values) ==
    /\ values.t # "undefined"
    /\ Len(values.v) > 0
    /\ Len(values.v[1].v) > 0

\* variant: the header is prepended whatever was read
RowsToAppendAlways(hasHeader, rowValues) == <<HEADER_COLUMNS, rowValues>>

RowsToAppend(hasHeader, rowValues) ==
    IF hasHeader THEN <<rowValues>> ELSE <<HEADER_COLUMNS, rowValues>>

-----------------------------------------------------------------------------
(* Request bodies *)

\* A body as sent: text that is not JSON, or the JSON value the text denotes.
NotJson == [json |-> FALSE, value |-> Undefined]
Json(v) == [json |-> TRUE, value |-> v]

\* request.json()
RequestJson(raw) == IF raw.json THEN [ok |-> TRUE, value |-> raw.value]
                    ELSE [ok |-> FALSE, value |-> Undefined]

\* !body
Falsy(v) ==
    \/ v.t \in {"undefined", "null"}
    \/ v.t = "number" /\ v.v = 0
    \/ v.t = "string" /\ v.v = ""
    \/ v.t = "boolean" /\ ~v.v

\* variant: the typeof test lets every value through
TypeOfAny(v) == "object"

\* typeof body
TypeOf(v) == IF v.t \in {"null", "array", "object"} THEN "object" ELSE v.t

\* the payload the client builds for a minimal valid record
ValidBody ==
    Obj([business_name |-> Str("Acme"),
         Category |-> Str("Food & Drink"),
         description |-> Str("Bakery"),
         products |-> Str("Bread"),
         website |-> Str("https://acme.io"),
         phone |-> Str("5551234567"),
         email |-> Str("ann@acme.io"),
         contact_first |-> Str("Ann"),
         contact_last |-> Str("Lee"),
         street |-> Str("1 Main St"),
         street2 |-> Str(""),
         city |-> Str("Troy"),
         state |-> Str("NY"),
         zip_code |-> Str("12180"),
         tags |-> Arr(<<Str("a"), Str("b")>>),
         African_American |-> Bool(TRUE),
         type_of_business |-> Str("physical"),
         is_usa_based |-> Bool(TRUE),
         Not_USA |-> Num(0),
         consent_marketing |-> Bool(TRUE),
         facebook |-> Str(""),
         instagram |-> Str(""),
         linkedin |-> Str(""),
         keywords |-> Arr(<<Str("bread")>>),
         has_multiple_locations |-> Bool(FALSE),
         additional_locations |-> Arr(<<>>)]
        @@ ("Women-American" :> Bool(FALSE)))

ValidLocation ==
    Obj([street |-> Str("2 Oak Ave"), city |-> Str("Troy"), state |-> Str("NY"),
         zip_code |-> Str("12180-0001"), phone |-> Str(""), email |-> Str("")])

\* the string of n copies of c
RECURSIVE Repeat(_, _)
Repeat(c, n) ==
    IF n = 0 THEN ""
    ELSE LET half == Repeat(c, n \div 2)
         IN  half \o half \o (IF n % 2 = 1 THEN c ELSE "")

EmptyObject == Obj([k \in {} |-> Undefined])

\* bodies that are not a JSON object
NonObjectBodies ==
    {NotJson, Json(Null), Json(Num(0)), Json(Num(7)), Json(Str("")), Json(Str("x")),
     Json(Bool(FALSE)), Json(Bool(TRUE))}

\* JSON objects (and an array) that the extras schema decides
ExtrasBodies ==
    {Json(Arr(<<>>)), Json(EmptyObject)}
    \cup {Json(With(ValidBody, "Not_USA", x)) :
            x \in {Num(1), Num(2), Str("1"), Bool(TRUE), Null}}
    \cup {Json(Without(ValidBody, "Not_USA")), Json(Without(ValidBody, "tags"))}
    \cup {Json(With(ValidBody, "tags", x)) :
            x \in {Arr(<<>>), Arr(<<Str(" a "), Str("b")>>), Arr(<<Str("")>>),
                   Arr(<<Str("a"), Str(" ")>>), Arr(<<Num(1)>>), Str("a,b"), Null}}

NonUsaBody == With(With(ValidBody, "is_usa_based", Bool(FALSE)), "Not_USA", Num(1))

\* bodies that pass the extras schema and differ from ValidBody in one place
RecordBodies ==
    {Json(ValidBody), Json(NonUsaBody),
     Json(With(ValidBody, "is_usa_based", Bool(FALSE))),
     Json(With(ValidBody, "zip_code", Str("12180-1234"))),
     Json(With(ValidBody, "facebook", Str("https://fb.com/acme"))),
     Json(With(ValidBody, "keywords", Arr(<<Str(" bread "), Str("cake")>>))),
     Json(With(With(ValidBody, "has_multiple_locations", Bool(TRUE)),
               "additional_locations", Arr(<<ValidLocation>>))),
     Json(With(ValidBody, "utm_source", Str("ad"))),
     Json(Without(ValidBody, "street2"))}
    \cup {Json(Without(ValidBody, k)) : k \in {"business_name", "keywords", "consent_marketing"}}
    \cup {Json(With(ValidBody, k, Str(""))) :
            k \in {"business_name", "description", "products", "contact_first",
                   "contact_last", "street", "city", "state", "website"}}
    \cup {Json(With(ValidBody, "business_name", Num(7))),
          Json(With(ValidBody, "Category", Str("Nope"))),
          Json(With(ValidBody, "description", Str(Repeat("d", DescriptionMax + 1)))),
          Json(With(ValidBody, "products", Str(Repeat("p", ProductsMax + 1)))),
          Json(With(ValidBody, "website", Str("acme"))),
          Json(With(ValidBody, "phone", Str("555123456"))),
          Json(With(ValidBody, "phone", Str("(555) 123-4567"))),
          Json(With(ValidBody, "email", Str("ann@acme"))),
          Json(With(ValidBody, "zip_code", Str("1218"))),
          Json(With(ValidBody, "African_American", Bool(FALSE))),
          Json(With(ValidBody, "type_of_business", Str("hybrid"))),
          Json(With(ValidBody, "is_usa_based", Str("yes"))),
          Json(With(ValidBody, "consent_marketing", Bool(FALSE))),
          Json(With(With(ValidBody, "consent_marketing", Bool(FALSE)), "zip_code", Str("1218"))),
          Json(With(Without(ValidBody, "business_name"), "consent_marketing", Bool(FALSE))),
          Json(With(With(ValidBody, "consent_marketing", Bool(FALSE)), "Not_USA", Num(2))),
          Json(With(ValidBody, "linkedin", Str("in"))),
          Json(With(ValidBody, "keywords", Arr(<<>>))),
          Json(With(ValidBody, "keywords", Arr(<<Str("a"), Str(" ")>>))),
          Json(With(ValidBody, "keywords",
                    Arr([i \in 1..(KeywordsMax + 1) |-> Str("k")]))),
          Json(With(ValidBody, "has_multiple_locations", Bool(TRUE))),
          Json(With(ValidBody, "additional_locations",
                    Arr(<<With(ValidLocation, "zip_code", Str("x"))>>))),
          Json(With(With(ValidBody, "has_multiple_locations", Bool(TRUE)),
                    "additional_locations",
                    Arr(<<ValidLocation, With(ValidLocation, "zip_code", Str("x"))>>))),
          Json(With(ValidBody, "additional_locations",
                    Arr([i \in 1..(LocationsMax + 1) |-> ValidLocation])))}

Bodies == NonObjectBodies \cup ExtrasBodies \cup RecordBodies

\* the few bodies used where requests overlap
RaceBodies ==
    {NotJson, Json(With(ValidBody, "Not_USA", Num(2))),
     Json(With(ValidBody, "zip_code", Str("1218"))),
     Json(ValidBody), Json(NonUsaBody)}

-----------------------------------------------------------------------------
(* The route handler *)

NumSequential == 3
NumOverlapping == 2

Reply(status, json) == [status |-> status, json |-> json]
NoResponse == Reply(0, [none |-> TRUE])

InvalidJsonBody == Reply(400, [error |-> "Invalid JSON body."])
InvalidPayload == Reply(400, [error |-> "Invalid payload."])
InvalidPayloadDetails(issues) ==
    Reply(400, [error |-> "Invalid payload.", details |-> Flatten(issues)])
Saved == Reply(200, [ok |-> TRUE, columns |-> HEADER_COLUMNS])

\* variant: the caught error's text is sent back
SaveFailedLeaking(error) ==
    [response |-> Reply(500, [error |-> error]), logged |-> error]

\* the catch block of POST: the error goes to the log, not to the response
SaveFailed(error) ==
    [response |-> Reply(500, [error |-> "Failed to save submission. Please try again."]),
     logged |-> error]

Call(op, result) == [op |-> op, result |-> result]

\* the end of a request before any spreadsheet call
Ended(resp, log) ==
    [pc |-> "done", payload |-> Undefined, calls |-> <<>>, logged |-> log, response |-> resp]

\* the body handed to businessFormSchema: { ...body, tags: tags.join(", ") }
Rejoined(b, extras) == With(b, "tags", Str(Join(Strings(Get(extras, "tags")), ", ")))

\* parsedPayload: { ...data, tags: extras.tags, Not_USA: extras.Not_USA }
ParsedPayload(data, extras) ==
    With(With(data, "tags", Get(extras, "tags")), "Not_USA", Get(extras, "Not_USA"))

\* POST for a validated record: parsedPayload, then appendSubmissionRow up
\* to its first await, or the catch block when that throws
HandleSave(data, extras, e) ==
    Only({IF ~setup.ok
          THEN [Ended(SaveFailed(setup.error).response, SaveFailed(setup.error).logged)
                  EXCEPT !.payload = parsedPayload]
          ELSE [pc |-> "reading",
                payload |-> parsedPayload,
                calls |-> <<Call("get", "pending")>>,
                logged |-> "",
                response |-> NoResponse]
          : setup \in {AppendSetup(e)}, parsedPayload \in {ParsedPayload(data, extras)}})

\* variant: the record goes to the spreadsheet before the record schema is
\* consulted
HandleBodySavingFirst(b, e) ==
    IF Falsy(b) \/ TypeOf(b) # "object" THEN Ended(InvalidPayload, "")
    ELSE Only({
           IF ~parsedExtras.success
           THEN Ended(InvalidPayloadDetails(parsedExtras.issues), "")
           ELSE HandleSave(Rejoined(b, parsedExtras.data), parsedExtras.data, e)
           : parsedExtras \in {SafeParse(joinPayloadExtrasSchema(b))}})

\* POST for a parsed body: the object test, the extras schema, the record
\* schema
HandleBody(b, e) ==
    IF Falsy(b) \/ TypeOf(b) # "object" THEN Ended(InvalidPayload, "")
    ELSE Only({
           IF ~parsedExtras.success
           THEN Ended(InvalidPayloadDetails(parsedExtras.issues), "")
           ELSE Only({
                  IF ~parsedBusinessPayload.success
                  THEN Ended(InvalidPayloadDetails(parsedBusinessPayload.issues), "")
                  ELSE HandleSave(parsedBusinessPayload.data, parsedExtras.data, e)
                  : parsedBusinessPayload \in
                        {SafeParse(businessFormSchema(rejoined))
                           : rejoined \in {Rejoined(b, parsedExtras.data)}}})
           : parsedExtras \in {SafeParse(joinPayloadExtrasSchema(b))}})

\* POST from its first line to its first spreadsheet call, or to the
\* response when it ends before one
Handle(raw, e) ==
    IF ~RequestJson(raw).ok THEN Ended(InvalidJsonBody, "")
    ELSE Only({HandleBody(b, e) : b \in {RequestJson(raw).value}})

Environments ==
    [GOOGLE_SHEET_ID : SheetIdValues, GOOGLE_SERVICE_ACCOUNT_JSON : CredentialValues]

\* Handle is a function of the body and the environment alone: its table
Handled == [raw \in Bodies, e \in Environments |-> Handle(raw, e)]

\* a request arrives and runs up to its first await on the spreadsheet
POST(r, raw) ==
    /\ pc[r] = "idle"
    /\ \E h \in {IF raw \in Bodies THEN Handled[raw, env] ELSE Handle(raw, env)} :
          /\ pc' = [pc EXCEPT ![r] = h.pc]
          /\ payload' = [payload EXCEPT ![r] = h.payload]
          /\ calls' = [calls EXCEPT ![r] = h.calls]
          /\ logged' = [logged EXCEPT ![r] = h.logged]
          /\ response' = [response EXCEPT ![r] = h.response]
    /\ body' = [body EXCEPT ![r] = raw]
    /\ UNCHANGED <<env, sheet, rows>>
    /\ UNCHANGED formVars

\* the calls of a request once its pending call has ended with `result`,
\* followed by the calls it issues next
Settle(cs, result, next) ==
    [cs EXCEPT ![Len(cs)] = Call(cs[Len(cs)].op, result)] \o next

\* values.get resolves: hasHeader is decided and values.append is issued
GetReturns(r) ==
    /\ pc[r] = "reading"
    /\ \E values \in FirstRowValues(sheet) :
          rows' = [rows EXCEPT ![r] =
                      RowsToAppend(HasHeader(values), rowFromPayload(payload[r]))]
    /\ pc' = [pc EXCEPT ![r] = "appending"]
    /\ calls' = [calls EXCEPT ![r] = Settle(calls[r], "ok", <<Call("append", "pending")>>)]
    /\ UNCHANGED <<env, sheet, body, payload, logged, response>>
    /\ UNCHANGED formVars

\* variant: a rejected read is tried once more
GetFailsRetrying(r) ==
    /\ pc[r] = "reading"
    /\ IF Len(calls[r]) < 2
       THEN /\ calls' = [calls EXCEPT ![r] = Settle(calls[r], "error", <<Call("get", "pending")>>)]
            /\ UNCHANGED <<pc, response, logged>>
       ELSE /\ \E error \in ApiErrors :
                  /\ response' = [response EXCEPT ![r] = SaveFailed(error).response]
                  /\ logged' = [logged EXCEPT ![r] = SaveFailed(error).logged]
            /\ pc' = [pc EXCEPT ![r] = "done"]
            /\ calls' = [calls EXCEPT ![r] = Settle(calls[r], "error", <<>>)]
    /\ UNCHANGED <<env, sheet, body, payload, rows>>
    /\ UNCHANGED formVars

\* values.get rejects: the catch block answers
GetFails(r) ==
    /\ pc[r] = "reading"
    /\ \E error \in ApiErrors :
          /\ response' = [response EXCEPT ![r] = SaveFailed(error).response]
          /\ logged' = [logged EXCEPT ![r] = SaveFailed(error).logged]
    /\ pc' = [pc EXCEPT ![r] = "done"]
    /\ calls' = [calls EXCEPT ![r] = Settle(calls[r], "error", <<>>)]
    /\ UNCHANGED <<env, sheet, body, payload, rows>>
    /\ UNCHANGED formVars

\* variant: the store drops a header offered to a sheet that has rows
AppendReturnsMerging(r) ==
    /\ pc[r] = "appending"
    /\ sheet' = sheet \o (IF Len(sheet) > 0 THEN <<rows[r][Len(rows[r])]>> ELSE rows[r])
    /\ response' = [response EXCEPT ![r] = Saved]
    /\ pc' = [pc EXCEPT ![r] = "done"]
    /\ calls' = [calls EXCEPT ![r] = Settle(calls[r], "ok", <<>>)]
    /\ UNCHANGED <<env, body, payload, rows, logged>>
    /\ UNCHANGED formVars

\* values.append resolves: the rows are on the sheet and POST answers 200
AppendReturns(r) ==
    /\ pc[r] = "appending"
    /\ sheet' = sheet \o rows[r]
    /\ response' = [response EXCEPT ![r] = Saved]
    /\ pc' = [pc EXCEPT ![r] = "done"]
    /\ calls' = [calls EXCEPT ![r] = Settle(calls[r], "ok", <<>>)]
    /\ UNCHANGED <<env, body, payload, rows, logged>>
    /\ UNCHANGED formVars

\* variant: a rejected append is swallowed and POST answers 200
AppendFailsSwallowed(r) ==
    /\ pc[r] = "appending"
    /\ response' = [response EXCEPT ![r] = Saved]
    /\ pc' = [pc EXCEPT ![r] = "done"]
    /\ calls' = [calls EXCEPT ![r] = Settle(calls[r], "error", <<>>)]
    /\ UNCHANGED <<env, sheet, body, payload, rows, logged>>
    /\ UNCHANGED formVars

\* variant: the rejection of values.append leaves the handler uncaught
AppendFailsEscaping(r) ==
    /\ pc[r] = "appending"
    /\ pc' = [pc EXCEPT ![r] = "done"]
    /\ calls' = [calls EXCEPT ![r] = Settle(calls[r], "error", <<>>)]
    /\ UNCHANGED <<env, sheet, body, payload, rows, logged, response>>
    /\ UNCHANGED formVars

\* values.append rejects: nothing is written and the catch block answers
AppendFails(r) ==
    /\ pc[r] = "appending"
    /\ \E error \in ApiErrors :
          /\ response' = [response EXCEPT ![r] = SaveFailed(error).response]
          /\ logged' = [logged EXCEPT ![r] = SaveFailed(error).logged]
    /\ pc' = [pc EXCEPT ![r] = "done"]
    /\ calls' = [calls EXCEPT ![r] = Settle(calls[r], "error", <<>>)]
    /\ UNCHANGED <<env, sheet, body, payload, rows>>
    /\ UNCHANGED formVars

Requests == DOMAIN pc

-----------------------------------------------------------------------------
(* The client form *)

MaxEdits == 1
NumSubmissions == 2

businessFormDefaultValues ==
    Obj([business_name |-> Str(""),
         Category |-> Str("Arts, Media & Creative"),
         description |-> Str(""),
         products |-> Str(""),
         website |-> Str(""),
         phone |-> Str(""),
         email |-> Str(""),
         contact_first |-> Str(""),
         contact_last |-> Str(""),
         street |-> Str(""),
         street2 |-> Str(""),
         city |-> Str(""),
         state |-> Str(""),
         zip_code |-> Str(""),
         tags |-> Str(""),
         African_American |-> Bool(FALSE),
         type_of_business |-> Str("physical"),
         is_usa_based |-> Bool(TRUE),
         consent_marketing |-> Bool(TRUE),
         facebook |-> Str(""),
         instagram |-> Str(""),
         linkedin |-> Str(""),
         keywords |-> Arr(<<>>),
         has_multiple_locations |-> Bool(FALSE),
         additional_locations |-> Arr(<<>>)]
        @@ ("Women-American" :> Bool(FALSE)))

\* variant: the first 10 characters are cut out before the non-digits go
toTenDigitsSliceFirst(value) ==
    LET head == SubSeq(value, 1, IF Len(value) < 10 THEN Len(value) ELSE 10)
        digits == {i \in 1..Len(head) : Ch(head, i) \in Digits}
        Nth(k) == CHOOSE i \in digits : Cardinality({j \in digits : j < i}) = k - 1
    IN  Join([k \in 1..Cardinality(digits) |-> Ch(head, Nth(k))], "")

\* value.replace(/\D/g, "").slice(0, 10)
toTenDigits(value) ==
    LET digits == {i \in 1..Len(value) : Ch(value, i) \in Digits}
        Nth(k) == CHOOSE i \in digits : Cardinality({j \in digits : j < i}) = k - 1
        replaced == Join([k \in 1..Cardinality(digits) |-> Ch(value, Nth(k))], "")
    IN  SubSeq(replaced, 1, IF Len(replaced) < 10 THEN Len(replaced) ELSE 10)

\* Array.prototype.filter(Boolean) over strings: the empty string is falsy
FilterBoolean(list) ==
    LET Truthy(x) == x # ""
    IN  SelectSeq(list, Truthy)

\* variant: the tokens are not trimmed
ParsedTagsUntrimmed(tags) ==
    LET text == IF tags.t = "undefined" THEN "" ELSE tags.v
    IN  FilterBoolean(Split(text, ","))

\* (values.tags ?? "").split(",").map((tag) => tag.trim()).filter(Boolean)
ParsedTags(tags) ==
    LET text == IF tags.t = "undefined" THEN "" ELSE tags.v
        pieces == Split(text, ",")
    IN  FilterBoolean([i \in 1..Len(pieces) |-> Trim(pieces[i])])

StrArr(list) == Arr([i \in 1..Len(list) |-> Str(list[i])])

\* variant: the tag text is sent as it was entered
onSubmitTagText(data) ==
    With(data, "Not_USA", Num(IF Get(data, "is_usa_based").v THEN 0 ELSE 1))

\* the payload onSubmit hands to submitMutation.mutate
onSubmit(data) ==
    With(With(data, "tags", StrArr(ParsedTags(Get(data, "tags")))),
         "Not_USA", Num(IF Get(data, "is_usa_based").v THEN 0 ELSE 1))

NoToast == [kind |-> "none", text |-> ""]
Toast(kind, text) == [kind |-> kind, text |-> text]

NotParsed == [of |-> Undefined, result |-> Undefined]
NoPayload == Undefined

\* what getSubmitErrorMessage is given: the resolver's errors, an axios
\* error with a response, or an axios error without one
ResolverErrors == [axios |-> FALSE, responded |-> FALSE, response |-> NoResponse]
AxiosError(resp) == [axios |-> TRUE, responded |-> TRUE, response |-> resp]
NetworkFailure == [axios |-> TRUE, responded |-> FALSE, response |-> NoResponse]

getSubmitErrorMessage(error) ==
    IF error.axios
    THEN IF /\ error.responded
            /\ "error" \in DOMAIN error.response.json
            /\ error.response.json.error # ""
         THEN error.response.json.error
         ELSE IF error.responded
         THEN "Request failed with status code " \o NumberToString(error.response.status)
         ELSE "Network Error"
    ELSE "Failed to submit form. Please try again."

\* text fields and selects of the form with texts a user enters in them
TextInputs ==
    [business_name |-> {""},
     website |-> {"acme"},
     email |-> {"ann@acme"},
     street2 |-> {"Suite 5"},
     zip_code |-> {"12180-1234"},
     tags |-> {"a, b ,c", " , ,", "a,,b", "\tx y ,"},
     facebook |-> {"https://fb.com/acme"},
     Category |-> {"Shops & Retail"},
     type_of_business |-> {"online"}]

\* texts entered in a phone box
PhoneInputs == {"", "(555) 123-4567 ext", "555-1234", "1 (555) 123-4567 x89", "call me", "5559876543"}

\* the ones entered in the form's phone boxes
FormPhoneInputs == {"(555) 123-4567 ext", "555-1234"}

KeywordInputs == {"", " cake "}

CheckboxFields == {"African_American", "Women-American", "is_usa_based", "consent_marketing"}

LocationInputs ==
    [street |-> {"9 Elm Rd"},
     zip_code |-> {"12207", "1220"},
     email |-> {"shop@acme.io"}]

\* the entry `Add Location` appends
BlankLocation ==
    Obj([street |-> Str(""), street2 |-> Str(""), city |-> Str(""), state |-> Str(""),
         zip_code |-> Str(""), phone |-> Str(""), email |-> Str("")])

\* seq without its i-th element
RemoveAt(seq, i) == [j \in 1..(Len(seq) - 1) |-> IF j < i THEN seq[j] ELSE seq[j + 1]]

\* the count of the user's changes, kept up to MaxEdits
Counted(n) == IF n < MaxEdits THEN n + 1 ELSE n

\* a change by the user: the values change, nothing else of the form does
Edited(next) ==
    /\ next # formValues
    /\ formValues' = next
    /\ edits' = Counted(edits)
    /\ UNCHANGED <<parsed, mutation, outbox, toast, sent>>
    /\ UNCHANGED serverVars

\* field.onChange of a text input or a select
Change(k, text) ==
    /\ Edited(With(formValues, k, Str(text)))
    /\ UNCHANGED typed

\* field.onChange(checked === true) of a checkbox, and the two consent boxes
Check_(k, checked) ==
    /\ Edited(With(formValues, k, Bool(checked)))
    /\ UNCHANGED typed

\* onChange of the phone input
ChangePhone(text) ==
    /\ typed' = text
    /\ formValues' = With(formValues, "phone", Str(toTenDigits(text)))
    /\ edits' = Counted(edits)
    /\ UNCHANGED <<parsed, mutation, outbox, toast, sent>>
    /\ UNCHANGED serverVars

\* variant: the switch without the effect
SwitchMultipleKeeping ==
    /\ Edited(With(formValues, "has_multiple_locations",
                   Bool(~Get(formValues, "has_multiple_locations").v)))
    /\ UNCHANGED typed

\* the has_multiple_locations switch, and the effect that empties the
\* location list when the flag is off
SwitchMultiple ==
    /\ Edited(IF Get(formValues, "has_multiple_locations").v
              THEN With(With(formValues, "has_multiple_locations", Bool(FALSE)),
                        "additional_locations", Arr(<<>>))
              ELSE With(formValues, "has_multiple_locations", Bool(TRUE)))
    /\ UNCHANGED typed

\* variant: `Add keyword` is never disabled
AddKeywordAlways ==
    /\ Edited(With(formValues, "keywords", Arr(Get(formValues, "keywords").v \o <<Str("")>>)))
    /\ UNCHANGED typed

\* `Add keyword`: disabled at 5
AddKeyword ==
    /\ Len(Get(formValues, "keywords").v) < KeywordsMax
    /\ Edited(With(formValues, "keywords", Arr(Get(formValues, "keywords").v \o <<Str("")>>)))
    /\ UNCHANGED typed

\* `Remove` next to keyword i
RemoveKeyword(i) ==
    /\ i \in 1..Len(Get(formValues, "keywords").v)
    /\ Edited(With(formValues, "keywords", Arr(RemoveAt(Get(formValues, "keywords").v, i))))
    /\ UNCHANGED typed

\* the input of keyword i
ChangeKeyword(i, text) ==
    /\ i \in 1..Len(Get(formValues, "keywords").v)
    /\ Edited(With(formValues, "keywords",
                   Arr([Get(formValues, "keywords").v EXCEPT ![i] = Str(text)])))
    /\ UNCHANGED typed

\* `Add Location`: shown while the flag is on, disabled at 5
AddLocation ==
    /\ Get(formValues, "has_multiple_locations").v
    /\ Len(Get(formValues, "additional_locations").v) < LocationsMax
    /\ Edited(With(formValues, "additional_locations",
                   Arr(Get(formValues, "additional_locations").v \o <<BlankLocation>>)))
    /\ UNCHANGED typed

\* `Remove` of location i
RemoveLocation(i) ==
    /\ i \in 1..Len(Get(formValues, "additional_locations").v)
    /\ Edited(With(formValues, "additional_locations",
                   Arr(RemoveAt(Get(formValues, "additional_locations").v, i))))
    /\ UNCHANGED typed

\* an input of location i; its phone input goes through toTenDigits
ChangeLocation(i, k, text) ==
    /\ i \in 1..Len(Get(formValues, "additional_locations").v)
    /\ Edited(With(formValues, "additional_locations",
                   Arr([Get(formValues, "additional_locations").v EXCEPT ![i] =
                           With(@, k, Str(IF k = "phone" THEN toTenDigits(text) ELSE text))])))
    /\ UNCHANGED typed

\* variant: the submit button is not disabled while the mutation is pending
HandleSubmitWhilePending ==
    /\ \E result \in {businessFormSchema(formValues)} :
          /\ parsed' = [of |-> formValues, result |-> result]
          /\ IF result.status = "valid"
             THEN /\ sent < NumSubmissions
                  /\ outbox' = onSubmit(result.value)
                  /\ mutation' = "pending"
                  /\ sent' = sent + 1
                  /\ UNCHANGED toast
             ELSE /\ toast' = Toast("error", getSubmitErrorMessage(ResolverErrors))
                  /\ UNCHANGED <<outbox, mutation, sent>>
    /\ UNCHANGED <<formValues, typed, edits>>
    /\ UNCHANGED serverVars

\* the request of the pending mutation reaches the route handler

\* form.handleSubmit: the resolver runs businessFormSchema over the values;
\* onSubmit gets the parsed record and starts the mutation, or the errors
\* are shown.  The submit button is disabled while the mutation is pending.
HandleSubmit ==
    /\ mutation # "pending"
    /\ \E result \in {businessFormSchema(formValues)} :
          /\ parsed' = [of |-> formValues, result |-> result]
          /\ IF result.status = "valid"
             THEN /\ sent < NumSubmissions
                  /\ outbox' = onSubmit(result.value)
                  /\ mutation' = "pending"
                  /\ sent' = sent + 1
                  /\ UNCHANGED toast
             ELSE /\ toast' = Toast("error", getSubmitErrorMessage(ResolverErrors))
                  /\ UNCHANGED <<outbox, mutation, sent>>
    /\ UNCHANGED <<formValues, typed, edits>>
    /\ UNCHANGED serverVars

\* the request of the pending mutation reaches the route handler
Deliver ==
    /\ sent \in Requests
    /\ mutation = "pending"
    /\ POST(sent, Json(outbox))

\* variant: a failed mutation puts the defaults back
OnErrorResetting(error) ==
    /\ formValues' = businessFormDefaultValues
    /\ typed' = ""
    /\ mutation' = "error"
    /\ toast' = Toast("error", getSubmitErrorMessage(error))

\* onError of submitMutation
OnError(error) ==
    /\ mutation' = "error"
    /\ toast' = Toast("error", getSubmitErrorMessage(error))
    /\ UNCHANGED <<formValues, typed>>

\* onSuccess of submitMutation
OnSuccess ==
    /\ formValues' = businessFormDefaultValues
    /\ typed' = ""
    /\ mutation' = "success"
    /\ toast' = Toast("success", "Form submitted successfully.")

\* the response of the pending request arrives
Receive ==
    /\ mutation = "pending"
    /\ sent \in Requests
    /\ pc[sent] = "done"
    /\ IF response[sent].status = 200 THEN OnSuccess ELSE OnError(AxiosError(response[sent]))
    /\ UNCHANGED <<parsed, outbox, edits, sent>>
    /\ UNCHANGED serverVars

\* the request or its response is lost on the way
NetworkError ==
    /\ mutation = "pending"
    /\ OnError(NetworkFailure)
    /\ UNCHANGED <<parsed, outbox, edits, sent>>
    /\ UNCHANGED serverVars

\* the form as first rendered
FormStart(form) ==
    /\ formValues = form
    /\ typed = IF Get(form, "phone").t = "string" THEN Get(form, "phone").v ELSE ""
    /\ parsed = NotParsed
    /\ mutation = "idle"
    /\ outbox = NoPayload
    /\ toast = NoToast
    /\ edits = 0
    /\ sent = 0

\* the server before any request
ServerStart(requests, environments) ==
    /\ env \in environments
    /\ sheet = <<>>
    /\ pc = [r \in requests |-> "idle"]
    /\ body = [r \in requests |-> NotJson]
    /\ payload = [r \in requests |-> Undefined]
    /\ rows = [r \in requests |-> <<>>]
    /\ calls = [r \in requests |-> <<>>]
    /\ logged = [r \in requests |-> ""]
    /\ response = [r \in requests |-> NoResponse]

InitOver(requests) ==
    /\ env \in Environments
    /\ sheet = <<>>
    /\ pc = [r \in requests |-> "idle"]
    /\ body = [r \in requests |-> NotJson]
    /\ payload = [r \in requests |-> Undefined]
    /\ rows = [r \in requests |-> <<>>]
    /\ calls = [r \in requests |-> <<>>]
    /\ logged = [r \in requests |-> ""]
    /\ response = [r \in requests |-> NoResponse]
    /\ FormStart(businessFormDefaultValues)

\* one request, any body, any environment
Init == InitOver({1})

Next ==
    \E r \in Requests :
        \/ \E raw \in Bodies : POST(r, raw)
        \/ GetReturns(r)
        \/ GetFails(r)
        \/ AppendReturns(r)
        \/ AppendFails(r)

Spec == Init /\ [][Next]_vars

\* one request whose spreadsheet calls each return or fail in the end
SpecFair ==
    /\ Spec
    /\ WF_vars(\E r \in Requests : GetReturns(r) \/ GetFails(r))
    /\ WF_vars(\E r \in Requests : AppendReturns(r) \/ AppendFails(r))

\* submissions that do not overlap: request r is sent once every earlier
\* request has been answered
InitSequence == InitOver(1..NumSequential)

NextSequence ==
    \E r \in Requests :
        \/ /\ \A q \in Requests : (q < r) = (pc[q] = "done")
           /\ \E raw \in RaceBodies : POST(r, raw)
        \/ GetReturns(r)
        \/ GetFails(r)
        \/ AppendReturns(r)
        \/ AppendFails(r)

SpecSequence == InitSequence /\ [][NextSequence]_vars

\* requests on several connections, free to overlap
InitOverlap == InitOver(1..NumOverlapping)

NextOverlap ==
    \E r \in Requests :
        \/ \E raw \in RaceBodies : POST(r, raw)
        \/ GetReturns(r)
        \/ GetFails(r)
        \/ AppendReturns(r)
        \/ AppendFails(r)

SpecOverlap == InitOverlap /\ [][NextOverlap]_vars

-----------------------------------------------------------------------------
(* The form and the route handler together *)

\* a working configuration
GoodEnvironment ==
    [GOOGLE_SHEET_ID |-> "sheet-1", GOOGLE_SERVICE_ACCOUNT_JSON |-> Text(FALSE, TRUE, TRUE)]

\* a form filled in with a minimal valid record
FilledForm == With(Without(ValidBody, "Not_USA"), "tags", Str("a, b"))

\* forms a user can have filled in: the defaults, valid records, a record
\* with a location just added
ClientForms ==
    {businessFormDefaultValues,
     FilledForm,
     With(With(FilledForm, "is_usa_based", Bool(FALSE)),
          "keywords", Arr(<<Str(" bread "), Str("cake")>>)),
     With(With(FilledForm, "has_multiple_locations", Bool(TRUE)),
          "additional_locations", Arr(<<With(ValidLocation, "street2", Str(""))>>)),
     With(With(FilledForm, "has_multiple_locations", Bool(TRUE)),
          "additional_locations", Arr(<<BlankLocation>>))}

InitClient ==
    /\ ServerStart(1..NumSubmissions, {GoodEnvironment})
    /\ \E form \in ClientForms : FormStart(form)

\* the user's changes, at most MaxEdits of them in all
NextEdit ==
    /\ edits < MaxEdits
    /\ \/ \E k \in DOMAIN TextInputs : \E text \in TextInputs[k] : Change(k, text)
       \/ \E k \in CheckboxFields : \E checked \in BOOLEAN : Check_(k, checked)
       \/ \E text \in FormPhoneInputs : ChangePhone(text)
       \/ SwitchMultiple
       \/ AddKeyword
       \/ \E i \in 1..KeywordsMax : RemoveKeyword(i)
       \/ \E i \in 1..KeywordsMax : \E text \in KeywordInputs : ChangeKeyword(i, text)
       \/ AddLocation
       \/ \E i \in 1..LocationsMax : RemoveLocation(i)
       \/ \E i \in 1..LocationsMax :
             \/ \E k \in DOMAIN LocationInputs : \E text \in LocationInputs[k] :
                   ChangeLocation(i, k, text)
             \/ \E text \in FormPhoneInputs : ChangeLocation(i, "phone", text)

NextClient ==
    \/ NextEdit
    \/ HandleSubmit
    \/ Deliver
    \/ Receive
    \/ NetworkError
    \/ \E r \in Requests :
          \/ GetReturns(r)
          \/ GetFails(r)
          \/ AppendReturns(r)
          \/ AppendFails(r)

SpecClient == InitClient /\ [][NextClient]_vars

-----------------------------------------------------------------------------
(* The keyword list of the form *)

\* texts typed into the keyword inputs
KeywordTexts == KeywordInputs \cup {"bread"}

InitKeywords ==
    /\ ServerStart(1..NumSubmissions, {GoodEnvironment})
    /\ FormStart(businessFormDefaultValues)

NextKeywords ==
    \/ AddKeyword
    \/ \E i \in 1..KeywordsMax : RemoveKeyword(i)
    \/ \E i \in 1..KeywordsMax : \E text \in KeywordTexts : ChangeKeyword(i, text)

SpecKeywords == InitKeywords /\ [][NextKeywords]_vars

-----------------------------------------------------------------------------
(* The location list of the form *)

InitLocations == InitClient

NextLocations ==
    \/ SwitchMultiple
    \/ AddLocation
    \/ \E i \in 1..LocationsMax : RemoveLocation(i)
    \/ HandleSubmit
    \/ NetworkError

SpecLocations == InitLocations /\ [][NextLocations]_vars

-----------------------------------------------------------------------------
(* The schema over records of every kind *)

\* o with key k set to v, or without key k when v is undefined
Put(o, k, v) == IF v = Undefined THEN Without(o, k) ELSE With(o, k, v)

Entry(k, v) == [key |-> k, value |-> v]

StringKeys ==
    {"business_name", "Category", "description", "products", "website", "phone", "email",
     "contact_first", "contact_last", "street", "city", "state", "zip_code",
     "type_of_business"}

\* one field of a record missing, empty, of the wrong type, or against its
\* format rule
Deviations ==
    {Entry("street2", Str(""))}
    \cup {Entry(FormKeys[i], Undefined) : i \in 1..Len(FormKeys)}
    \cup {Entry(k, Str("")) : k \in StringKeys}
    \cup {Entry("business_name", Num(7)), Entry("keywords", Str("bread")),
          Entry("African_American", Str("no")), Entry("has_multiple_locations", Null),
          Entry("additional_locations", Null), Entry("consent_marketing", Num(1)),
          Entry("tags", Arr(<<Str("a")>>))}
    \cup {Entry("phone", Str(x)) :
            x \in {"555123456", "55512345678", "555-123-4567", "555123456x", " 5551234567"}}
    \cup {Entry("zip_code", Str("1218")), Entry("zip_code", Str("12180-12")),
          Entry("email", Str("ann@acme")), Entry("website", Str("acme")),
          Entry("Category", Str("Nope")), Entry("type_of_business", Str("hybrid")),
          Entry("description", Str(Repeat("d", DescriptionMax + 1))),
          Entry("products", Str(Repeat("p", ProductsMax + 1))),
          Entry("facebook", Str("fb")), Entry("consent_marketing", Bool(FALSE))}
    \cup {Entry("keywords", Arr(x)) :
            x \in {<<>>, <<Str("")>>, <<Str("a"), Str(" ")>>, <<Str("\t")>>,
                   <<Str(" bread "), Str("cake")>>, <<Str(" c "), Str("b"), Str(" a")>>,
                   [i \in 1..KeywordsMax |-> Str("k")],
                   [i \in 1..(KeywordsMax + 1) |-> Str("k")],
                   [i \in 1..(KeywordsMax + 2) |-> Str(" k")],
                   <<Num(7)>>}}

\* the ownership flags and the location fields of the records
Ownerships == {<<a, w>> : a \in BOOLEAN, w \in BOOLEAN}

LocationCases ==
    {<<FALSE, <<>>>>, <<TRUE, <<>>>>, <<TRUE, <<ValidLocation>>>>,
     <<FALSE, <<ValidLocation>>>>,
     <<TRUE, <<With(ValidLocation, "zip_code", Str("x"))>>>>,
     <<TRUE, <<ValidLocation, Without(ValidLocation, "phone")>>>>}

BaseRecord(ownership, locations) ==
    With(With(With(With(FilledForm,
        "African_American", Bool(ownership[1])),
        "Women-American", Bool(ownership[2])),
        "has_multiple_locations", Bool(locations[1])),
        "additional_locations", Arr(locations[2]))

BaseRecords ==
    {BaseRecord(o, <<FALSE, <<>>>>) : o \in Ownerships}
    \cup {BaseRecord(<<TRUE, FALSE>>, l) : l \in LocationCases}
    \cup {BaseRecord(<<FALSE, FALSE>>, <<TRUE, <<>>>>)}

SchemaRecords == {Put(base, d.key, d.value) : base \in BaseRecords, d \in Deviations}

\* the resolver, zodResolver(businessFormSchema), given a record
Resolve ==
    /\ parsed = NotParsed
    /\ parsed' = [of |-> formValues, result |-> businessFormSchema(formValues)]
    /\ UNCHANGED <<formValues, typed, mutation, outbox, toast, edits, sent>>
    /\ UNCHANGED serverVars

InitSchema ==
    /\ ServerStart({1}, {GoodEnvironment})
    /\ \E record \in SchemaRecords : FormStart(record)

NextSchema ==
    \/ Resolve
    \/ edits < MaxEdits /\ \E text \in PhoneInputs : ChangePhone(text)

SpecSchema == InitSchema /\ [][NextSchema]_vars


-----------------------------------------------------------------------------
(* Properties *)

Answered(r, status) == pc[r] = "done" /\ response[r].status = status

DataRow(r) == rowFromPayload(payload[r])

HeaderCount(sh) == Cardinality({i \in 1..Len(sh) : sh[i] = HEADER_COLUMNS})

ReadAndAppended == <<Call("get", "ok"), Call("append", "ok")>>

PassesExtras(b) == joinPayloadExtrasSchema(b).status = "valid"

PassesRecord(b) ==
    businessFormSchema(Rejoined(b, joinPayloadExtrasSchema(b).value)).status = "valid"

\* the body of request r went through every validation step
Validated(r) ==
    /\ body[r].json
    /\ PassesExtras(body[r].value)
    /\ PassesRecord(body[r].value)

\* C1: with submissions that do not overlap, a successful append to a sheet
\* with no first row adds exactly the header row and then the data row, and
\* a successful append to a sheet with a first row adds exactly the data row.
C1_HeaderBootstrap ==
    [][\A r \in Requests :
          (pc[r] = "appending" /\ Answered(r, 200)') =>
              sheet' = sheet \o (IF Len(sheet) = 0
                                 THEN <<HEADER_COLUMNS, DataRow(r)>>
                                 ELSE <<DataRow(r)>>)]_vars

C1_Witness ==
    /\ Answered(1, 200) /\ Answered(2, 200)
    /\ sheet = <<HEADER_COLUMNS, DataRow(1), DataRow(2)>>

\* C2: with overlapping requests nothing merges the headers: the sheet holds
\* one header row for every request answered 200 that read an empty first
\* row, so two requests that both read before either appends leave two.
C2_NoHeaderDeduplication ==
    HeaderCount(sheet) =
        Cardinality({r \in Requests : Answered(r, 200) /\ Len(rows[r]) = 2})

C2_Witness ==
    /\ Answered(1, 200) /\ Answered(2, 200)
    /\ Len(rows[1]) = 2 /\ Len(rows[2]) = 2
    /\ HeaderCount(sheet) = 2
    /\ Len(sheet) = 4

\* C3: with submissions that do not overlap, the sheet is empty until a
\* submission is answered 200; from then on its first row is the header,
\* written by the first such submission together with its data row, no other
\* row is a header, and every later success added its data row only.
C3_HeaderOnce ==
    LET ok == {r \in Requests : Answered(r, 200)}
    IN  IF ok = {} THEN sheet = <<>>
        ELSE LET first == CHOOSE r \in ok : \A q \in ok : r <= q
             IN  /\ Len(sheet) = 1 + Cardinality(ok)
                 /\ sheet[1] = HEADER_COLUMNS
                 /\ sheet[2] = DataRow(first)
                 /\ HeaderCount(sheet) = 1
                 /\ rows[first] = <<HEADER_COLUMNS, DataRow(first)>>
                 /\ \A q \in ok \ {first} : rows[q] = <<DataRow(q)>>

C3_Witness ==
    /\ Answered(1, 500) /\ Len(calls[1]) = 2
    /\ Answered(2, 200) /\ Answered(3, 200)
    /\ Len(sheet) = 3

\* C4: a finished request has status 200, with ok = true and the 27 column
\* names, exactly when its body parsed, passed both schemas, and the read and
\* the append both succeeded; otherwise the status is 400 or 500 without ok.
C4_SuccessIff ==
    \A r \in Requests :
        pc[r] = "done" =>
            IF Validated(r) /\ calls[r] = ReadAndAppended
            THEN response[r] = Reply(200, [ok |-> TRUE, columns |-> HEADER_COLUMNS])
                 /\ Len(response[r].json.columns) = 27
            ELSE response[r].status \in {400, 500}
                 /\ "ok" \notin DOMAIN response[r].json

C4_Witness ==
    /\ Answered(1, 200)
    /\ body[1] = Json(ValidBody)

\* C5: a body that is not JSON, or is null, a number, a string or a boolean,
\* is answered 400 with an error string and nothing else, and no
\* spreadsheet call is made.
C5_MalformedBody ==
    \A r \in Requests :
        (pc[r] # "idle"
         /\ (~body[r].json \/ body[r].value.t \in {"null", "number", "string", "boolean"})) =>
            /\ Answered(r, 400)
            /\ DOMAIN response[r].json = {"error"}
            /\ response[r].json.error \in {"Invalid JSON body.", "Invalid payload."}
            /\ calls[r] = <<>>
            /\ sheet = <<>>

C5_Witness ==
    /\ Answered(1, 400)
    /\ body[1] = Json(Num(7))

\* what the extras schema is said to accept
ExtrasAcceptable(b) ==
    /\ b.t = "object"
    /\ Get(b, "Not_USA") \in {Num(0), Num(1)}
    /\ \/ Get(b, "tags").t = "undefined"
       \/ /\ Get(b, "tags").t = "array"
          /\ \A i \in 1..Len(Get(b, "tags").v) :
                /\ Get(b, "tags").v[i].t = "string"
                /\ Trim(Get(b, "tags").v[i].v) # ""

ReachesExtras(r) ==
    /\ pc[r] # "idle"
    /\ body[r].json
    /\ body[r].value.t \in {"array", "object"}

\* C6: a body that reaches the extras check goes on only if Not_USA is the
\* number 0 or 1 and tags is absent (then the empty list) or a list of
\* strings non-empty after trimming; any other is answered 400 with error and
\* details naming only tags or Not_USA, and no spreadsheet call is made.
C6_ExtrasCheck ==
    \A r \in Requests :
        ReachesExtras(r) =>
            IF ExtrasAcceptable(body[r].value)
            THEN (payload[r] # Undefined /\ Get(body[r].value, "tags").t = "undefined")
                    => Get(payload[r], "tags") = Arr(<<>>)
            ELSE /\ Answered(r, 400)
                 /\ DOMAIN response[r].json = {"error", "details"}
                 /\ DOMAIN response[r].json.details.fieldErrors \subseteq {"tags", "Not_USA"}
                 /\ Len(response[r].json.details.formErrors)
                      + Cardinality(DOMAIN response[r].json.details.fieldErrors) > 0
                 /\ payload[r] = Undefined
                 /\ calls[r] = <<>>
                 /\ sheet = <<>>

C6_Witness ==
    /\ Answered(1, 400)
    /\ body[1] = Json(With(ValidBody, "Not_USA", Str("1")))
    /\ DOMAIN response[1].json.details.fieldErrors = {"Not_USA"}

\* C7: a body that passes the extras check and whose record, with tags
\* re-joined, fails businessFormSchema is answered 400 with an error string
\* and the field errors, and nothing is appended.
C7_RecordRejected ==
    \A r \in Requests :
        (pc[r] # "idle" /\ body[r].json /\ PassesExtras(body[r].value)
         /\ ~PassesRecord(body[r].value)) =>
            /\ Answered(r, 400)
            /\ DOMAIN response[r].json = {"error", "details"}
            /\ response[r].json.error = "Invalid payload."
            /\ DOMAIN response[r].json.details.fieldErrors # {}
            /\ calls[r] = <<>>
            /\ sheet = <<>>

C7_Witness ==
    /\ Answered(1, 400)
    /\ body[1] = Json(With(ValidBody, "zip_code", Str("1218")))
    /\ DOMAIN response[1].json.details.fieldErrors = {"zip_code"}

\* C8: a validated request that fails downstream, whatever the cause, is
\* answered 500 with one fixed error string; the cause is logged and is not
\* in the response.
C8_GenericServerError ==
    \A r \in Requests :
        (pc[r] = "done" /\ Validated(r) /\ calls[r] # ReadAndAppended) =>
            /\ response[r] = Reply(500, [error |-> "Failed to save submission. Please try again."])
            /\ logged[r] # ""
            /\ logged[r] # response[r].json.error

C8_Witness ==
    /\ Answered(1, 500)
    /\ calls[1] = <<Call("get", "ok"), Call("append", "error")>>
    /\ logged[1] = "socket hang up"

\* C9: a request issues at most one read and at most one append, the read
\* first; a failed read is followed by no append and a failed call by no
\* further call.
C9_SingleAttempt ==
    \A r \in Requests :
        /\ calls[r] \in {<<>>,
                         <<Call("get", "pending")>>,
                         <<Call("get", "error")>>,
                         <<Call("get", "ok"), Call("append", "pending")>>,
                         <<Call("get", "ok"), Call("append", "error")>>,
                         <<Call("get", "ok"), Call("append", "ok")>>}
        /\ pc[r] = "done" =>
              \A i \in 1..Len(calls[r]) : calls[r][i].result # "pending"

C9_Witness ==
    /\ pc[1] = "done" /\ calls[1] = <<Call("get", "error")>>
    /\ pc[2] = "done" /\ calls[2] = <<Call("get", "ok"), Call("append", "error")>>

\* C10: in every data row on the sheet the Not_USA cell is "1" when the
\* is_usa_based cell says no and "0" when it says yes.
C10_NotUsaInverse ==
    \A i \in 1..Len(sheet) :
        sheet[i] # HEADER_COLUMNS =>
            sheet[i][20] = (IF sheet[i][19] = "No" THEN "1" ELSE "0")

\* the record the resolver was given has been validated
Resolved == parsed # NotParsed

Rejected(result) == result.status # "valid"

HasIssueAt(result, path) ==
    \E i \in 1..Len(result.issues) : result.issues[i].path = path

HasIssueUnder(result, k) ==
    \E i \in 1..Len(result.issues) :
        Len(result.issues[i].path) > 0 /\ result.issues[i].path[1] = Key(k)

\* C11: a validated record with both ownership flags false is rejected with
\* an error at the path African_American, whatever its other fields are.
C11_OwnershipAlwaysReported ==
    (/\ Resolved
     /\ Get(parsed.of, "African_American") = Bool(FALSE)
     /\ Get(parsed.of, "Women-American") = Bool(FALSE)) =>
        /\ Rejected(parsed.result)
        /\ HasIssueAt(parsed.result, <<Key("African_American")>>)

\* the record is valid once its location fields are those of a business
\* with one location
OtherFieldsValid(record) ==
    businessFormSchema(With(With(record, "has_multiple_locations", Bool(FALSE)),
                            "additional_locations", Arr(<<>>))).status = "valid"

\* C12: of a record whose other fields are valid and whose
\* has_multiple_locations is true, the one with an empty location list is
\* rejected with an error at the path additional_locations (and no other
\* error), and the one with exactly one valid location is accepted.
C12_LocationsRequired ==
    (/\ Resolved
     /\ Get(parsed.of, "has_multiple_locations") = Bool(TRUE)
     /\ Get(parsed.of, "additional_locations").t = "array"
     /\ OtherFieldsValid(parsed.of)) =>
        LET locations == Get(parsed.of, "additional_locations").v
        IN  /\ Len(locations) = 0 =>
                 /\ Rejected(parsed.result)
                 /\ parsed.result.issues =
                      <<Issue(<<Key("additional_locations")>>,
                              "Add at least one additional location")>>
            /\ (Len(locations) = 1
                /\ locationSchema(locations[1], <<>>).status = "valid") =>
                 parsed.result.status = "valid"

C12_Witness ==
    /\ Resolved
    /\ parsed.of = BaseRecord(<<TRUE, FALSE>>, <<TRUE, <<>>>>)
    /\ parsed.result.status = "dirty"
    /\ HasIssueAt(parsed.result, <<Key("additional_locations")>>)

\* the required fields of the record
RequiredFields ==
    {"business_name", "Category", "description", "products", "website", "phone", "email",
     "contact_first", "contact_last", "street", "city", "state", "zip_code",
     "African_American", "Women-American", "is_usa_based", "consent_marketing",
     "has_multiple_locations", "type_of_business", "keywords", "additional_locations"}

Missing(record, k) == Get(record, k) = Undefined

Empty(record, k) == Get(record, k) \in {Str(""), Arr(<<>>)}

\* C13 as stated: a record with a required field missing or empty is
\* rejected with an error at that field's path.
C13_MissingOrEmptyRejected ==
    Resolved =>
        \A k \in RequiredFields :
            (Missing(parsed.of, k) \/ Empty(parsed.of, k)) =>
                /\ Rejected(parsed.result)
                /\ HasIssueAt(parsed.result, <<Key(k)>>)

\* C13: a record with a required field missing, or with a required text
\* field or the keyword list empty, is rejected with an error at that
\* field's path; an empty location list is no error of its own: with
\* has_multiple_locations false and the other fields valid the record is
\* accepted.
C13_RequiredFields ==
    Resolved =>
        /\ \A k \in RequiredFields :
              (\/ Missing(parsed.of, k)
               \/ k # "additional_locations" /\ Empty(parsed.of, k)) =>
                  /\ Rejected(parsed.result)
                  /\ HasIssueAt(parsed.result, <<Key(k)>>)
        /\ (/\ Empty(parsed.of, "additional_locations")
            /\ Get(parsed.of, "has_multiple_locations") = Bool(FALSE)
            /\ OtherFieldsValid(parsed.of)) =>
                  parsed.result.status = "valid"

C13_Witness ==
    /\ Resolved
    /\ parsed.of = Put(BaseRecord(<<FALSE, FALSE>>, <<FALSE, <<>>>>), "city", Undefined)
    /\ parsed.result.status = "aborted"
    /\ HasIssueAt(parsed.result, <<Key("city")>>)

\* what the keywords rule is said to accept
KeywordsAcceptable(v) ==
    /\ v.t = "array"
    /\ Len(v.v) \in 1..5
    /\ \A i \in 1..Len(v.v) : v.v[i].t = "string" /\ Trim(v.v[i].v) # ""

\* C15: the keywords field is accepted exactly when it is a list of 1 to 5
\* entries each non-empty after trimming: any other value is rejected with
\* an error under keywords, and an accepted list is stored trimmed, in its
\* order.
C15_Keywords ==
    Resolved =>
        LET keywords == Get(parsed.of, "keywords")
        IN  IF KeywordsAcceptable(keywords)
            THEN /\ ~HasIssueUnder(parsed.result, "keywords")
                 /\ parsed.result.status # "aborted" =>
                       Get(parsed.result.value, "keywords") =
                           Arr([i \in 1..Len(keywords.v) |-> Str(Trim(keywords.v[i].v))])
            ELSE /\ Rejected(parsed.result)
                 /\ HasIssueUnder(parsed.result, "keywords")

C15_Witness ==
    /\ Resolved
    /\ Get(parsed.of, "keywords") = Arr(<<Str(" c "), Str("b"), Str(" a")>>)
    /\ parsed.result.status = "valid"
    /\ Get(parsed.result.value, "keywords") = Arr(<<Str("c"), Str("b"), Str("a")>>)

\* the digit characters of a text, in order
DigitsOf(text) ==
    LET IsDigit(c) == c \in Digits
    IN  SelectSeq([i \in 1..Len(text) |-> Ch(text, i)], IsDigit)

\* C16: the phone field holds the first at most 10 digit characters of the
\* text last entered in its box, and a validated record whose phone is not a
\* string of exactly 10 digits is rejected with an error at the path phone.
C16_PhoneTenDigits ==
    /\ edits > 0 =>
          LET phone == Get(formValues, "phone").v
              digits == DigitsOf(typed)
          IN  /\ Len(phone) = (IF Len(digits) < 10 THEN Len(digits) ELSE 10)
              /\ \A i \in 1..Len(phone) : Ch(phone, i) = digits[i]
    /\ Resolved =>
          LET phone == Get(parsed.of, "phone")
              tenDigits == /\ phone.t = "string"
                           /\ Len(phone.v) = 10
                           /\ \A i \in 1..Len(phone.v) : Ch(phone.v, i) \in Digits
          IN  ~tenDigits =>
                 /\ Rejected(parsed.result)
                 /\ HasIssueAt(parsed.result, <<Key("phone")>>)

C16_Witness ==
    /\ typed = "555-1234"
    /\ Get(formValues, "phone") = Str("5551234")
    /\ Resolved
    /\ Get(parsed.of, "phone") = Str("5551234")
    /\ parsed.result.status = "dirty"

\* C14: a request whose body refuses the marketing consent is answered 400
\* before any spreadsheet call, and no data row on the sheet has "No" in its
\* consent_marketing cell.
C14_ConsentRequired ==
    /\ \A r \in Requests :
          (/\ pc[r] # "idle"
           /\ body[r].json
           /\ Get(body[r].value, "consent_marketing") = Bool(FALSE)) =>
              /\ Answered(r, 400)
              /\ PassesExtras(body[r].value) =>
                    Rejected(businessFormSchema(
                        Rejoined(body[r].value, joinPayloadExtrasSchema(body[r].value).value)))
              /\ payload[r] = Undefined
              /\ calls[r] = <<>>
    /\ \A i \in 1..Len(sheet) :
          sheet[i] # HEADER_COLUMNS => sheet[i][21] = "Yes"

C14_Witness ==
    /\ Answered(1, 400)
    /\ body[1] = Json(With(ValidBody, "consent_marketing", Bool(FALSE)))
    /\ response[1].json.details.fieldErrors =
          [k \in {"consent_marketing"} |-> <<"Marketing consent is required">>]

\* text holds part somewhere
Contains(text, part) ==
    \E i \in 1..(Len(text) - Len(part) + 1) : SubSeq(text, i, i + Len(part) - 1) = part

\* how often text holds part
Occurrences(text, part) ==
    Cardinality({i \in 1..(Len(text) - Len(part) + 1) :
                    SubSeq(text, i, i + Len(part) - 1) = part})

\* the cell of a field, by the kind of its value
Rendered(p, name) ==
    LET v == Get(p, name)
    IN  CASE v.t = "string" -> v.v
          [] v.t = "boolean" -> IF v.v THEN "Yes" ELSE "No"
          [] v.t = "number" -> IF v.v = 0 THEN "0" ELSE "1"
          [] v.t = "undefined" -> ""
          [] v.t = "array" -> Join([i \in 1..Len(v.v) |-> v.v[i].v], ", ")

\* the cell is the JSON text of the locations: a list with one object for
\* every location, holding each of its fields as "name":"value"
EncodesLocations(cell, locations) ==
    /\ Ch(cell, 1) = "[" /\ Ch(cell, Len(cell)) = "]"
    /\ Occurrences(cell, "{") = Len(locations)
    /\ Occurrences(cell, "}") = Len(locations)
    /\ Occurrences(cell, "},{") = (IF Len(locations) = 0 THEN 0 ELSE Len(locations) - 1)
    /\ \A i \in 1..Len(locations) : \A k \in DOMAIN locations[i].v :
          Contains(cell, "\"" \o k \o "\":\"" \o locations[i].v[k].v \o "\"")

\* C18: the row made from a validated payload has exactly 27 cells, the i-th
\* the value of the field the i-th header names: strings as they are,
\* booleans as "Yes" or "No", tags and keywords comma-joined, an absent
\* street2 as "", Not_USA as "0" or "1", the locations as one JSON text.
C18_RowMatchesHeader ==
    \A r \in Requests :
        rows[r] # <<>> =>
            LET row == rows[r][Len(rows[r])]
            IN  /\ Len(row) = 27
                /\ Len(HEADER_COLUMNS) = 27
                /\ \A i \in 1..26 : row[i] = Rendered(payload[r], HEADER_COLUMNS[i])
                /\ HEADER_COLUMNS[27] = "additional_locations"
                /\ EncodesLocations(row[27], Get(payload[r], "additional_locations").v)
                /\ \A i \in 1..26 :
                      Get(payload[r], HEADER_COLUMNS[i]) = Undefined =>
                          HEADER_COLUMNS[i] = "street2"

C18_Witness ==
    /\ Answered(1, 200)
    /\ Get(body[1].value, "has_multiple_locations") = Bool(TRUE)
    /\ rows[1][2][15] = "a, b"
    /\ rows[1][2][19] = "Yes"
    /\ rows[1][2][20] = "0"
    /\ rows[1][2][27] =
          "[{\"street\":\"2 Oak Ave\",\"city\":\"Troy\",\"state\":\"NY\",\"zip_code\":\"12180-0001\",\"phone\":\"\",\"email\":\"\"}]"

\* the character at i is the first of a token: it is neither white space nor
\* a comma, and only white space lies between it and the comma (or the
\* start of the text) before it
StartsToken(text, i) ==
    /\ Ch(text, i) \notin WhiteSpace \cup {","}
    /\ \A j \in 1..(i - 1) :
          (\A m \in j..(i - 1) : Ch(text, m) # ",") => Ch(text, j) \in WhiteSpace

\* text without its white space and commas
Squeezed(text) ==
    LET Kept(c) == c \notin WhiteSpace \cup {","}
    IN  SelectSeq([i \in 1..Len(text) |-> Ch(text, i)], Kept)

\* list holds the comma-separated tokens of text, trimmed, the empty ones
\* left out
TokensOf(text, list) ==
    /\ list.t = "array"
    /\ \A i \in 1..Len(list.v) :
          /\ list.v[i].t = "string"
          /\ list.v[i].v # ""
          /\ ~Contains(list.v[i].v, ",")
          /\ Ch(list.v[i].v, 1) \notin WhiteSpace
          /\ Ch(list.v[i].v, Len(list.v[i].v)) \notin WhiteSpace
    /\ Len(list.v) = Cardinality({i \in 1..Len(text) : StartsToken(text, i)})
    /\ Squeezed(Join([i \in 1..Len(list.v) |-> list.v[i].v], "")) = Squeezed(text)
    /\ text = "a, b ,c" => list = Arr(<<Str("a"), Str("b"), Str("c")>>)

\* C17: onSubmit transmits the comma-separated tokens of the tag text,
\* trimmed and without the empty ones; every list so transmitted passes the
\* extras check unchanged, the re-joined text raises no error under tags and
\* the request is not answered 400, and splitting the re-joined text the
\* same way gives the list back.
C17_TagsRoundTrip ==
    /\ [][sent' = sent + 1 =>
            TokensOf(Get(formValues, "tags").v, Get(outbox', "tags"))]_vars
    /\ [](\A r \in Requests :
            pc[r] # "idle" =>
                LET tags == Get(body[r].value, "tags")
                    extras == joinPayloadExtrasSchema(body[r].value)
                    rejoined == Rejoined(body[r].value, extras.value)
                IN  /\ r = sent => tags = Get(outbox, "tags")
                    /\ extras.status = "valid"
                    /\ Get(extras.value, "tags") = tags
                    /\ ~HasIssueUnder(businessFormSchema(rejoined), "tags")
                    /\ response[r].status # 400
                    /\ StrArr(ParsedTags(Get(rejoined, "tags"))) = tags)

C17_Witness ==
    /\ Get(formValues, "tags") = Str("a, b ,c")
    /\ Get(outbox, "tags") = Arr(<<Str("a"), Str("b"), Str("c")>>)
    /\ Get(payload[1], "tags") = Arr(<<Str("a"), Str("b"), Str("c")>>)
    /\ pc[1] = "done"
    /\ response[1].status = 500

\* C19: the values of the form change only by a change the user makes or by
\* the reset that follows a successful submission; a rejected validation and
\* a failed submission leave every value as it was.
C19_ResetOnlyOnSuccess ==
    [][/\ formValues' # formValues =>
             \/ edits' = edits + 1
             \/ /\ mutation = "pending" /\ mutation' = "success"
                /\ response[sent].status = 200
                /\ formValues' = businessFormDefaultValues
       /\ (mutation = "pending" /\ mutation' = "success") =>
             formValues' = businessFormDefaultValues
       /\ (mutation = "pending" /\ mutation' = "error") => formValues' = formValues
       /\ (parsed' # parsed /\ Rejected(parsed'.result)) => formValues' = formValues]_vars

C19_Witness ==
    /\ mutation = "error"
    /\ pc[1] = "done"
    /\ response[1].status = 500
    /\ toast = Toast("error", "Failed to save submission. Please try again.")
    /\ formValues = FilledForm
    /\ edits = 0

\* C20: a record the form's validation accepts, packaged by onSubmit, passes
\* the extras schema and the record schema of the route handler, and no
\* request the form sends is answered 400.
C20_ClientPayloadAccepted ==
    /\ (Resolved /\ parsed.result.status = "valid") =>
          LET packaged == onSubmit(parsed.result.value)
          IN  /\ PassesExtras(packaged)
              /\ PassesRecord(packaged)
              /\ Get(packaged, "Not_USA") =
                    Num(IF Get(parsed.of, "is_usa_based").v THEN 0 ELSE 1)
    /\ \A r \in Requests :
          pc[r] # "idle" =>
              /\ r = sent => body[r] = Json(outbox)
              /\ PassesExtras(body[r].value)
              /\ PassesRecord(body[r].value)
              /\ payload[r] # Undefined
              /\ pc[r] = "done" => response[r].status \in {200, 500}

C20_Witness ==
    /\ mutation = "success"
    /\ pc[1] = "done"
    /\ response[1].status = 200
    /\ Get(body[1].value, "Not_USA") = Num(1)
    /\ Get(body[1].value, "keywords") = Arr(<<Str("bread"), Str("cake")>>)
    /\ formValues = businessFormDefaultValues

\* the text of a list index
IndexText(i) == <<"0", "1", "2", "3", "4", "5", "6">>[i + 1]

\* the key names every element of the path: each field and each index
Identifies(k, path) ==
    \A n \in 1..Len(path) :
        IF "key" \in DOMAIN path[n]
        THEN Contains(k, path[n].key)
        ELSE Contains(k, IndexText(path[n].idx))

\* the request's body reached the record schema and was rejected by it
RecordRejected(r) ==
    /\ pc[r] = "done"
    /\ body[r].json
    /\ ~Falsy(body[r].value) /\ TypeOf(body[r].value) = "object"
    /\ PassesExtras(body[r].value)
    /\ ~PassesRecord(body[r].value)

\* the issues the record schema raises for the body of request r
RecordIssues(r) ==
    businessFormSchema(
        Rejoined(body[r].value, joinPayloadExtrasSchema(body[r].value).value)).issues

\* C21: when the record schema rejects a body, the details of the 400
\* response hold, for every violated rule, a key that names the whole path
\* of the rule: each field and each list index on it.
C21_ErrorsKeyedByFullPath ==
    \A r \in Requests :
        RecordRejected(r) =>
            /\ response[r].status = 400
            /\ \A i \in 1..Len(RecordIssues(r)) :
                  \E k \in DOMAIN response[r].json.details.fieldErrors :
                      Identifies(k, RecordIssues(r)[i].path)

\* the spreadsheet calls of a request so far: none, the read, or the read
\* that returned and then the append
CallsInOrder(r) ==
    \/ calls[r] = <<>>
    \/ \E g \in {"pending", "ok", "error"} : calls[r] = <<Call("get", g)>>
    \/ \E a \in {"pending", "ok", "error"} : calls[r] = <<Call("get", "ok"), Call("append", a)>>

\* C22: the steps of a request run in the order parse, extras check, record
\* validation, row mapping, read, append, and the first step that fails ends
\* the request: a request whose body fails parsing or a validation is
\* answered 400 with no payload, no row, no spreadsheet call and nothing
\* logged, whatever the configuration; a row exists only for a validated
\* record whose read returned; a failed call is the request's last.
C22_StepsInOrder ==
    /\ [](\A r \in Requests :
            /\ CallsInOrder(r)
            /\ (pc[r] # "idle" /\ ~Validated(r)) =>
                  /\ Answered(r, 400)
                  /\ payload[r] = Undefined
                  /\ rows[r] = <<>>
                  /\ calls[r] = <<>>
                  /\ logged[r] = ""
            /\ payload[r] # Undefined => Validated(r)
            /\ calls[r] # <<>> => (payload[r] # Undefined /\ AppendSetup(env).ok)
            /\ rows[r] # <<>> =>
                  /\ calls[r][1] = Call("get", "ok")
                  /\ rows[r][Len(rows[r])] = rowFromPayload(payload[r])
            /\ (\E i \in 1..Len(calls[r]) : calls[r][i].result = "error") =>
                  /\ calls[r][Len(calls[r])].result = "error"
                  /\ Answered(r, 500)
            /\ pc[r] = "reading" <=> calls[r] = <<Call("get", "pending")>>
            /\ pc[r] = "appending" <=> Len(calls[r]) = 2 /\ calls[r][2].result = "pending")
    /\ [][\A r \in Requests :
            pc'[r] # pc[r] =>
                \/ pc[r] = "idle" /\ pc'[r] \in {"reading", "done"}
                \/ pc[r] = "reading" /\ pc'[r] \in {"appending", "done"}
                \/ pc[r] = "appending" /\ pc'[r] = "done"]_vars

C22_Witness ==
    /\ RecordRejected(1)
    /\ Answered(1, 400)
    /\ env.GOOGLE_SHEET_ID = ""
    /\ calls[1] = <<>>
    /\ logged[1] = ""

\* C26: a request that has arrived ends, once its spreadsheet calls have
\* returned or failed, with a response of status 200, 400 or 500; the
\* response is set once, at the step that ends the request, and neither it
\* nor the end of the request is undone.
C26_ExactlyOneResponse ==
    /\ \A r \in {1} : (pc[r] # "idle") ~> (pc[r] = "done")
    /\ [](\A r \in Requests :
            IF pc[r] = "done"
            THEN response[r].status \in {200, 400, 500}
            ELSE response[r] = NoResponse)
    /\ [][\A r \in Requests :
            /\ pc[r] = "done" => (pc'[r] = "done" /\ response'[r] = response[r])
            /\ response'[r] # response[r] => (pc[r] # "done" /\ pc'[r] = "done")]_vars

C26_Witness ==
    /\ Answered(1, 500)
    /\ calls[1] = <<Call("get", "ok"), Call("append", "error")>>
    /\ logged[1] = "socket hang up"
    /\ sheet = <<>>

\* the keyword list of the form
KeywordList == Get(formValues, "keywords").v

\* after holds the entries of before but the i-th, in their order
WithoutEntry(before, after, i) ==
    /\ Len(after) = Len(before) - 1
    /\ \A j \in 1..Len(after) : after[j] = (IF j < i THEN before[j] ELSE before[j + 1])

\* C23: from the empty default, through `Add keyword`, `Remove` and typing,
\* the keyword list never holds more than 5 entries; `Add keyword` is
\* possible exactly below 5 and appends one empty entry at the end; `Remove`
\* at i deletes that entry and keeps the others in their order; nothing else
\* changes the length of the list.
C23_KeywordList ==
    /\ [](Len(KeywordList) <= 5)
    /\ []((ENABLED AddKeyword) <=> Len(KeywordList) < 5)
    /\ [][/\ AddKeyword => KeywordList' = KeywordList \o <<Str("")>>
          /\ \A i \in 1..KeywordsMax :
                RemoveKeyword(i) =>
                    /\ i <= Len(KeywordList)
                    /\ WithoutEntry(KeywordList, KeywordList', i)
          /\ Len(KeywordList') # Len(KeywordList) =>
                \/ AddKeyword
                \/ \E i \in 1..KeywordsMax : RemoveKeyword(i)]_vars

C23_Witness ==
    /\ Len(KeywordList) = 5
    /\ KeywordList[1] = Str("bread")
    /\ KeywordList[2] = Str("")
    /\ KeywordList[5] = Str(" cake ")
    /\ ~ENABLED AddKeyword

\* the flag and the location list of a record
MultipleLocations(record) == Get(record, "has_multiple_locations").v
LocationList(record) == Get(record, "additional_locations").v

\* C25: in the form the location list is empty whenever the flag is off;
\* switching the flag off empties the list; a location can be added exactly
\* while the flag is on and the list holds fewer than 5; and a payload
\* submitted with the flag off carries an empty location list.
C25_LocationsFollowFlag ==
    /\ [](~MultipleLocations(formValues) => LocationList(formValues) = <<>>)
    /\ [](Len(LocationList(formValues)) <= 5)
    /\ []((ENABLED AddLocation) <=>
             (MultipleLocations(formValues) /\ Len(LocationList(formValues)) < 5))
    /\ [](outbox # NoPayload =>
             /\ Len(LocationList(outbox)) <= 5
             /\ ~MultipleLocations(outbox) => LocationList(outbox) = <<>>)
    /\ [][/\ (SwitchMultiple /\ MultipleLocations(formValues)) =>
                (~MultipleLocations(formValues') /\ LocationList(formValues') = <<>>)
          /\ Len(LocationList(formValues')) > Len(LocationList(formValues)) =>
                (AddLocation /\ MultipleLocations(formValues))]_vars

C25_Witness ==
    /\ mutation = "pending"
    /\ sent = 2
    /\ edits > 0
    /\ ~MultipleLocations(outbox)
    /\ LocationList(outbox) = <<>>
    /\ parsed.of = With(With(FilledForm, "has_multiple_locations", Bool(FALSE)),
                        "additional_locations", Arr(<<>>))

\* C24: the form starts a request only while none is pending: no submission
\* is validated while the mutation is pending, a submission that starts a
\* request finds the mutation idle, succeeded or failed and leaves it
\* pending, a pending mutation ends only in success or error, and the route
\* handler is given the pending request only.
C24_OneRequestPending ==
    /\ [](mutation = "pending" <=> (sent > 0 /\ mutation \notin {"success", "error"}))
    /\ [](\A r \in Requests : pc[r] # "idle" => r <= sent)
    /\ [][/\ parsed' # parsed => mutation # "pending"
          /\ sent' # sent =>
                /\ sent' = sent + 1
                /\ mutation \in {"idle", "success", "error"}
                /\ mutation' = "pending"
          /\ (mutation = "pending" /\ mutation' # "pending") =>
                (mutation' \in {"success", "error"} /\ sent' = sent)
          /\ mutation' = "pending" => (mutation = "pending" \/ sent' = sent + 1)
          /\ \A r \in Requests :
                (pc[r] = "idle" /\ pc'[r] # "idle") => (r = sent /\ mutation = "pending")]_vars

C24_Witness ==
    /\ sent = 2
    /\ mutation = "pending"
    /\ pc[1] = "done"
    /\ response[1].status = 500
    /\ pc[2] = "reading"
    /\ toast = Toast("error", "Failed to save submission. Please try again.")

====
